---- MODULE Spec2Model ----
(***************************************************************************)
(* Model of the episode identity matching and normalization engine of the *)
(* tvdb-scraper tool collection: the filename-key normalizer and key      *)
(* extractor of check_videos_presence.py and the title matcher of         *)
(* er_matching.py.                                                         *)
(*                                                                         *)
(* A Python string is a sequence of characters; a character is a TLA+     *)
(* string naming one code point ("a", "EN" for U+2013, ...).  A Python    *)
(* value is a record [type, str, num]; a raised exception is the record   *)
(* whose type is the exception's name.                                     *)
(***************************************************************************)
EXTENDS Integers, Sequences, FiniteSets, TLC

VARIABLES
    \* the normalizers: input value, normalize(s), normalize(normalize(s)),
    \* er_matching.normalize(s), position
    s, norm1, norm2, erNorm, npc,
    \* the key extractor: a filename (as its parts), key_from_filename of it,
    \* a CSV row, key_from_row of it
    file, fkey, row, rkey,
    \* check_videos_presence.main: the scanned directory, --recursive, the
    \* entries the iterator has still to yield, build_key_index's keys, the
    \* position, the rows written so far
    dir, recursive, pending, keys, ipc, marked,
    \* find_best_match: its arguments, locals, position and return value
    title, episodes, norm_title, idx, best_ep, best_score, mpc, result,
    \* build_new_filename: its argument ep, the name it returns,
    \* key_from_filename of that name, position
    ep, new_name, name_key, bpc,
    \* dedupe_final: its argument df (the rows in order), the rows it returns,
    \* the rows it returned for the previous ordering of df, position
    df, deduped, prev_deduped, dpc,
    \* rename_er_episodes.main: the source files glob found, the position of
    \* the loop in them, the files of the destination folder with their
    \* contents, the two counters, position
    mp4_files, fpos, destination, copied, skipped, cpc,
    \* the catalog tools: the sorted lists the two scrapers fetched, the JSON
    \* lists the scrapers and merge_json_lists wrote, the files written so far
    scraped_episodes, scraped_specials, json_episodes, json_specials, json_merged, written,
    \* find_er_duplicates.main: the files scan_files found, the parsed rows,
    \* the files that did not parse, the three duplicate reports, position
    files, parsed, unparsed, dup_code, dup_date, dup_abs, xpc,
    \* contains_whole_query: its two arguments and its return value
    cw_query, cw_candidate, cw_result,
    \* download_filmliste_extract_er: the decompressed text of the download,
    \* the chunks still to arrive, the rolling buffer, the scan position i in
    \* it (1-based), the records extracted so far, position
    stream, chunks, text_buf, scan_i, matches, spc

normVars == <<s, norm1, norm2, erNorm, npc>>
keyVars == <<file, fkey, row, rkey>>
indexVars == <<dir, recursive, pending, keys, ipc, marked>>
matchVars == <<title, episodes, norm_title, idx, best_ep, best_score, mpc, result>>
buildVars == <<ep, new_name, name_key, bpc>>
dedupeVars == <<df, deduped, prev_deduped, dpc>>
copyVars == <<mp4_files, fpos, destination, copied, skipped, cpc>>
catalogVars ==
    <<scraped_episodes, scraped_specials, json_episodes, json_specials, json_merged, written>>
duplicateVars == <<files, parsed, unparsed, dup_code, dup_date, dup_abs, xpc>>
containVars == <<cw_query, cw_candidate, cw_result>>
scanVars == <<stream, chunks, text_buf, scan_i, matches, spc>>
vars == <<normVars, keyVars, indexVars, matchVars, buildVars, dedupeVars, copyVars, catalogVars, duplicateVars, containVars, scanVars>>
othersNorm == <<keyVars, indexVars, matchVars, buildVars, dedupeVars, copyVars, catalogVars, duplicateVars, containVars, scanVars>>
othersKey == <<normVars, indexVars, matchVars, buildVars, dedupeVars, copyVars, catalogVars, duplicateVars, containVars, scanVars>>
othersIndex == <<normVars, keyVars, matchVars, buildVars, dedupeVars, copyVars, catalogVars, duplicateVars, containVars, scanVars>>
othersMatch == <<normVars, keyVars, indexVars, dedupeVars, copyVars, catalogVars, duplicateVars, containVars, scanVars>>
othersBuild == <<normVars, keyVars, indexVars, dedupeVars, copyVars, catalogVars, duplicateVars, containVars, scanVars>>
othersDedupe == <<normVars, keyVars, indexVars, matchVars, buildVars, copyVars, catalogVars, duplicateVars, containVars, scanVars>>
othersCopy == <<normVars, keyVars, indexVars, dedupeVars, catalogVars, duplicateVars, containVars, scanVars>>
othersCatalog == <<normVars, keyVars, indexVars, matchVars, buildVars, dedupeVars, copyVars, duplicateVars, containVars, scanVars>>
othersDuplicate ==
    <<normVars, keyVars, indexVars, matchVars, buildVars, dedupeVars, copyVars, catalogVars,
      containVars, scanVars>>
othersContain ==
    <<normVars, keyVars, indexVars, matchVars, buildVars, dedupeVars, copyVars, catalogVars,
      duplicateVars, scanVars>>
othersScan ==
    <<normVars, keyVars, indexVars, matchVars, buildVars, dedupeVars, copyVars, catalogVars,
      duplicateVars, containVars>>

(***************************************************************************)
(* Bounds of the model.                                                    *)
(***************************************************************************)
\* longest input string handed to the normalizers
MaxLen == 3
\* most digits of an absolute episode number
MaxAbsLen == 2
\* most entries of the scanned directory tree
MaxEntries == 2
\* most rows of the CSV
MaxRows == 2
\* most episodes of the catalog
MaxCatalog == 2
MaxFrame == 3
\* most source files of a rename run
MaxFiles == 2
\* most episodes of a scraped list
MaxScraped == 2
\* most files of a duplicate scan
MaxScan == 3
MaxChunks == 3

(***************************************************************************)
(* Python values.                                                          *)
(***************************************************************************)
PyStr(x) == [type |-> "str", str |-> x, num |-> 0]
PyNone == [type |-> "NoneType", str |-> <<>>, num |-> 0]
PyInt(n) == [type |-> "int", str |-> <<>>, num |-> n]
PyBool(b) == [type |-> "bool", str |-> <<>>, num |-> IF b THEN 1 ELSE 0]
Raised(e) == [type |-> e, str |-> <<>>, num |-> 0]
\* a result variable before the call that sets it
NotRun == [type |-> "unset", str |-> <<>>, num |-> 0]

IsStr(v) == v.type = "str"
\* Python truthiness of a value: None, 0 and "" are falsy
Truthy(v) ==
    CASE v.type = "str" -> v.str # <<>>
      [] v.type = "int" -> v.num # 0
      [] v.type = "bool" -> v.num # 0
      [] OTHER -> FALSE

(***************************************************************************)
(* Sequence helpers.                                                       *)
(***************************************************************************)
RECURSIVE Flatten(_)
Flatten(ss) == IF ss = <<>> THEN <<>> ELSE Head(ss) \o Flatten(Tail(ss))

\* all sequences over cs of length at most n
RECURSIVE SeqsUpTo(_, _)
SeqsUpTo(cs, n) ==
    IF n = 0 THEN {<<>>}
    ELSE LET shorter == SeqsUpTo(cs, n - 1)
         IN shorter \cup {Append(x, c) : x \in shorter, c \in cs}

(***************************************************************************)
(* Character data (unicodedata, str methods, re classes) for the code      *)
(* points the model uses.                                                  *)
(*   EN U+2013, EM U+2014, SHY U+00AD, RSQ U+2019, NBSP U+00A0,            *)
(*   ACUTE U+0301 (combining), a_ACUTE U+00E1, A_ACUTE U+00C1, SZ U+00DF   *)
(***************************************************************************)
Digits == {"0", "1", "2", "3", "4", "5", "6", "7", "8", "9"}
LowerLetters ==
    {"a", "b", "d", "e", "f", "g", "i", "h", "k", "l", "m", "n", "o", "p", "r", "s", "t", "u",
     "w", "x"}
UpperLetters ==
    {"A", "B", "D", "E", "F", "G", "I", "H", "K", "L", "M", "N", "O", "P", "R", "S", "T", "U",
     "W", "X"}

\* unicodedata.category(ch) == "Cf"
IsFormatChar(c) == c \in {"SHY"}

\* full (compatibility) decomposition of one code point
DecomposeChar(c) ==
    CASE c = "a_ACUTE" -> <<"a", "ACUTE">>
      [] c = "A_ACUTE" -> <<"A", "ACUTE">>
      [] c = "NBSP" -> <<" ">>
      [] OTHER -> <<c>>

\* canonical composition of a starter and the combining mark after it
HasComposite(base, mark) == mark = "ACUTE" /\ base \in {"a", "A"}
Composite(base, mark) == IF base = "a" THEN "a_ACUTE" ELSE "A_ACUTE"

\* str.casefold() / str.lower() of one code point
CaseFoldChar(c) ==
    CASE c = "A" -> <<"a">>
      [] c = "B" -> <<"b">>
      [] c = "D" -> <<"d">>
      [] c = "E" -> <<"e">>
      [] c = "F" -> <<"f">>
      [] c = "G" -> <<"g">>
      [] c = "I" -> <<"i">>
      [] c = "H" -> <<"h">>
      [] c = "K" -> <<"k">>
      [] c = "L" -> <<"l">>
      [] c = "M" -> <<"m">>
      [] c = "N" -> <<"n">>
      [] c = "O" -> <<"o">>
      [] c = "P" -> <<"p">>
      [] c = "R" -> <<"r">>
      [] c = "S" -> <<"s">>
      [] c = "T" -> <<"t">>
      [] c = "U" -> <<"u">>
      [] c = "W" -> <<"w">>
      [] c = "X" -> <<"x">>
      [] c = "A_ACUTE" -> <<"a_ACUTE">>
      [] c = "SZ" -> <<"s", "s">>
      [] c = "CAP_SZ" -> <<"s", "s">>
      [] OTHER -> <<c>>
\* str.lower(): the sharp s stays, the capital sharp s (U+1E9E) becomes the sharp s
LowerChar(c) ==
    CASE c = "SZ" -> <<c>>
      [] c = "CAP_SZ" -> <<"SZ">>
      [] OTHER -> CaseFoldChar(c)

\* re's \s and str.isspace()
IsSpace(c) == c \in {" ", "NBSP"}
\* re's \d
IsDigit(c) == c \in Digits
\* str.isalnum()
IsAlnum(c) ==
    c \in Digits \cup LowerLetters \cup UpperLetters \cup {"a_ACUTE", "A_ACUTE", "SZ", "CAP_SZ"}
\* re's \w
IsWord(c) == IsAlnum(c) \/ c = "_"

NFKD(x) == Flatten([i \in 1..Len(x) |-> DecomposeChar(x[i])])

RECURSIVE ComposeFrom(_, _)
ComposeFrom(acc, rest) ==
    IF rest = <<>> THEN acc
    ELSE LET c == Head(rest)
             n == Len(acc)
         IN IF n > 0 /\ HasComposite(acc[n], c)
            THEN ComposeFrom(SubSeq(acc, 1, n - 1) \o <<Composite(acc[n], c)>>, Tail(rest))
            ELSE ComposeFrom(Append(acc, c), Tail(rest))

NFKC(x) == ComposeFrom(<<>>, NFKD(x))

\* str.translate with a table mapping every member of from to the character to
Translate(x, from, to) == [i \in 1..Len(x) |-> IF x[i] \in from THEN to ELSE x[i]]

\* re.sub(r"\s+", " ", x)
RECURSIVE CollapseWs(_)
CollapseWs(x) ==
    IF x = <<>> THEN <<>>
    ELSE IF IsSpace(Head(x))
         THEN IF Len(x) > 1 /\ IsSpace(x[2]) THEN CollapseWs(Tail(x))
              ELSE <<" ">> \o CollapseWs(Tail(x))
         ELSE <<Head(x)>> \o CollapseWs(Tail(x))

\* str.strip()
RECURSIVE LStrip(_)
LStrip(x) == IF x # <<>> /\ IsSpace(Head(x)) THEN LStrip(Tail(x)) ELSE x
RECURSIVE RStrip(_)
RStrip(x) ==
    IF x # <<>> /\ IsSpace(x[Len(x)]) THEN RStrip(SubSeq(x, 1, Len(x) - 1)) ELSE x
Strip(x) == LStrip(RStrip(x))

CaseFold(x) == Flatten([i \in 1..Len(x) |-> CaseFoldChar(x[i])])
Lower(x) == Flatten([i \in 1..Len(x) |-> LowerChar(x[i])])

(***************************************************************************)
(* check_videos_presence.py: the filename-key normalizer.                  *)
(***************************************************************************)
\* mutant: the em dash left out of the table
DASH_EQUIVALENTS_NoEmDash == {"EN", "SHY"}
DASH_EQUIVALENTS == {"EN", "EM", "SHY"}
APOSTROPHE_EQUIVALENTS == {"RSQ"}
SPACE_EQUIVALENTS == {"NBSP"}

_remove_format_chars(x) == SelectSeq(x, LAMBDA c : ~IsFormatChar(c))

\* the body of normalize on a str
NormalizeStr(x) ==
    LET s1 == NFKC(x)
        s2 == _remove_format_chars(s1)
        s3 == Translate(s2, DASH_EQUIVALENTS, "-")
        s4 == Translate(s3, APOSTROPHE_EQUIVALENTS, "'")
        s5 == Translate(s4, SPACE_EQUIVALENTS, " ")
        s6 == Strip(CollapseWs(s5))
    IN CaseFold(s6)

\* normalize(v): unicodedata.normalize rejects an argument that is not a str
normalize(v) == IF IsStr(v) THEN PyStr(NormalizeStr(v.str)) ELSE Raised("TypeError")

(***************************************************************************)
(* er_matching.py: the matching-oriented normalizer.                       *)
(***************************************************************************)
ReplaceChar(x, c, by) == Flatten([i \in 1..Len(x) |-> IF x[i] = c THEN by ELSE <<x[i]>>])

ErNormalizeStr(x) ==
    LET s1 == ReplaceChar(x, "SZ", <<"s", "s">>)
        s2 == ReplaceChar(s1, "_", <<" ">>)
        s3 == Lower(s2)
        s4 == NFKD(s3)
        s5 == SelectSeq(s4, LAMBDA c : IsAlnum(c) \/ IsSpace(c))
    IN Strip(CollapseWs(s5))

\* er_matching.normalize(v): a falsy argument returns "" before any str method
\* is called; a truthy argument that is not a str has no replace method
er_normalize(v) ==
    IF ~Truthy(v) THEN PyStr(<<>>)
    ELSE IF IsStr(v) THEN PyStr(ErNormalizeStr(v.str))
    ELSE Raised("AttributeError")

(***************************************************************************)
(* check_videos_presence.py: PREFIX_RE and the key extractor.              *)
(* Positions are 1-based; position Len(f) + 1 is the end of the string;    *)
(* 0 is "no match".                                                        *)
(***************************************************************************)
CharAt(f, p) == IF p >= 1 /\ p <= Len(f) THEN f[p] ELSE "END"

\* \s* (greedy): the first position at or after p that holds no whitespace
RECURSIVE WsEnd(_, _)
WsEnd(f, p) == IF p <= Len(f) /\ IsSpace(f[p]) THEN WsEnd(f, p + 1) ELSE p

\* \d* (greedy): the first position at or after p that holds no digit
RECURSIVE DigitsEnd(_, _)
DigitsEnd(f, p) == IF p <= Len(f) /\ IsDigit(f[p]) THEN DigitsEnd(f, p + 1) ELSE p

\* \s*-\s* at p: the position after it, or 0
SepEnd(f, p) ==
    LET q == WsEnd(f, p)
    IN IF CharAt(f, q) = "-" THEN WsEnd(f, q + 1) ELSE 0

\* a literal letter under re.IGNORECASE
MatchesIgnoreCase(c, lit) == CaseFoldChar(c) = <<lit>>

\* \b at p: exactly one of the characters before and at p is a word character
WordBoundary(f, p) == IsWord(CharAt(f, p - 1)) # IsWord(CharAt(f, p))

\* (?P<se>\bS\d{1,4}E\d{1,4}\b) at p: the position after it, or 0
SeasonEpisodeEnd(f, p) ==
    LET d1 == DigitsEnd(f, p + 1)
        d2 == DigitsEnd(f, d1 + 1)
    IN IF /\ WordBoundary(f, p)
          /\ MatchesIgnoreCase(CharAt(f, p), "s")
          /\ d1 - (p + 1) \in 1..4
          /\ MatchesIgnoreCase(CharAt(f, d1), "e")
          /\ d2 - (d1 + 1) \in 1..4
          /\ WordBoundary(f, d2)
       THEN d2 ELSE 0

\* (?P<date>\d{4}-\d{2}-\d{2}) at p: the position after it, or 0
DateEnd(f, p) ==
    IF /\ \A k \in {0, 1, 2, 3, 5, 6, 8, 9} : IsDigit(CharAt(f, p + k))
       /\ CharAt(f, p + 4) = "-"
       /\ CharAt(f, p + 7) = "-"
    THEN p + 10 ELSE 0

\* mutant: \s*-\s*xl, the XL suffix accepted only after a dash
XlEnd_DashOnly(f, p) ==
    LET w == WsEnd(f, p)
        x == IF CharAt(f, w) = "-" THEN WsEnd(f, w + 1) ELSE 0
    IN IF x # 0 /\ MatchesIgnoreCase(CharAt(f, x), "x") /\ MatchesIgnoreCase(CharAt(f, x + 1), "l")
       THEN x + 2 ELSE 0

\* \s*[- ]?\s*xl at p: the position after it, or 0
XlEnd(f, p) ==
    LET w == WsEnd(f, p)
        x == IF CharAt(f, w) = "-" THEN WsEnd(f, w + 1) ELSE w
    IN IF MatchesIgnoreCase(CharAt(f, x), "x") /\ MatchesIgnoreCase(CharAt(f, x + 1), "l")
       THEN x + 2 ELSE 0

\* mutant: the final separator made optional, (?:\s*[- ]?\s*xl)?(?:\s*-\s*)?
SuffixMatches_OptionalSep(f, p) == XlEnd(f, p) >= 0

\* the final \s*-\s* at p, or after the XL suffix that ends at x (0: no suffix)
SepAfterOptionalXl(f, p, x) ==
    \/ x # 0 /\ SepEnd(f, x) # 0
    \/ SepEnd(f, p) # 0

\* (?:\s*[- ]?\s*xl)?\s*-\s* at p
SuffixMatches(f, p) == SepAfterOptionalXl(f, p, XlEnd(f, p))

\* the rest of PREFIX_RE with the season/episode token at p, group by group:
\* <<start of se, end of se, start of date, start of abs, end of abs>>, or <<>>
MatchGroups(f, p, seEnd, dateStart, absStart, absEnd) ==
    IF absEnd > absStart /\ SuffixMatches(f, absEnd)
    THEN <<p, seEnd, dateStart, absStart, absEnd>> ELSE <<>>
MatchFromAbs(f, p, seEnd, dateStart, absStart) ==
    IF absStart = 0 THEN <<>>
    ELSE MatchGroups(f, p, seEnd, dateStart, absStart, DigitsEnd(f, absStart))
MatchFromDateEnd(f, p, seEnd, dateStart, dateEnd) ==
    IF dateEnd = 0 THEN <<>>
    ELSE MatchFromAbs(f, p, seEnd, dateStart, SepEnd(f, dateEnd))
MatchFromDate(f, p, seEnd, dateStart) ==
    IF dateStart = 0 THEN <<>>
    ELSE MatchFromDateEnd(f, p, seEnd, dateStart, DateEnd(f, dateStart))
MatchFromSe(f, p, seEnd) ==
    IF seEnd = 0 THEN <<>> ELSE MatchFromDate(f, p, seEnd, SepEnd(f, seEnd))
MatchAt(f, p) == MatchFromSe(f, p, SeasonEpisodeEnd(f, p))

Least(ps) == CHOOSE p \in ps : \A q \in ps : p <= q

\* PREFIX_RE.match(f): ^\s*.*? takes the shortest prefix after which the rest matches
FirstMatch(f, starts) == IF starts = {} THEN <<>> ELSE MatchAt(f, Least(starts))
PREFIX_RE_match(f) == FirstMatch(f, {p \in 1..Len(f) : MatchAt(f, p) # <<>>})

SepLit == <<" ", "-", " ">>

\* f"{m.group('se')} - {m.group('date')} - {m.group('abs')} - "
RawKey(f, m) ==
    SubSeq(f, m[1], m[2] - 1) \o SepLit \o SubSeq(f, m[3], m[3] + 9) \o SepLit
    \o SubSeq(f, m[4], m[5] - 1) \o SepLit

KeyOfMatch(f, m) == IF m = <<>> THEN PyNone ELSE normalize(PyStr(RawKey(f, m)))

key_from_filename(f) == KeyOfMatch(f, PREFIX_RE_match(f))

\* mutant: the stripped cell used as it is
_abs_digits_Whole(value) == Strip(value)

\* mutant: ABS_DIGITS_RE.match in place of search, the digits value starts with
DigitSearch_Leading(v) == SubSeq(v, 1, DigitsEnd(v, 1) - 1)

\* ABS_DIGITS_RE.search(value): the first run of digits anywhere in value
FirstDigitRun(v, firsts) ==
    IF firsts = {} THEN <<>> ELSE SubSeq(v, Least(firsts), DigitsEnd(v, Least(firsts)) - 1)
DigitSearch(v) == FirstDigitRun(v, {p \in 1..Len(v) : IsDigit(v[p])})
_abs_digits(value) == DigitSearch(Strip(value))

\* row.get(field) or "": a missing cell (None) and an empty cell read as ""
OrEmpty(v) == IF Truthy(v) THEN v.str ELSE <<>>

key_from_row(r) ==
    LET se == Strip(OrEmpty(r.SeasonEpisode))
        date == Strip(OrEmpty(r.Date))
        abs_ep == _abs_digits(OrEmpty(r.AbsEpisode))
    IN normalize(PyStr(se \o SepLit \o date \o SepLit \o abs_ep \o SepLit))

(***************************************************************************)
(* er_matching.py: series prefix, containment rule, similarity ratio.      *)
(***************************************************************************)
\* a literal word under re.IGNORECASE at p: the position after it, or 0
RECURSIVE LiteralEnd(_, _, _)
LiteralEnd(f, p, word) ==
    IF word = <<>> THEN p
    ELSE IF MatchesIgnoreCase(CharAt(f, p), Head(word)) THEN LiteralEnd(f, p + 1, Tail(word))
    ELSE 0

EISENBAHN == <<"e", "i", "s", "e", "n", "b", "a", "h", "n">>
ROMANTIK == <<"r", "o", "m", "a", "n", "t", "i", "k">>

\* an optional character of cs at p, and the whitespace after it
OptionalCharEnd(f, p, cs) == IF CharAt(f, p) \in cs THEN WsEnd(f, p + 1) ELSE p

\* SERIES_PREFIX_RE, piece by piece: the position after the match, or 0
\*   ^\s* eisenbahn \s*[-EN EM]?\s* romantik \s*(?:[:-EN EM]\s*)?
PrefixAfterRomantik(f, p) ==
    IF p = 0 THEN 0 ELSE OptionalCharEnd(f, WsEnd(f, p), {":", "-", "EN", "EM"})
PrefixAfterEisenbahn(f, p) ==
    IF p = 0 THEN 0
    ELSE PrefixAfterRomantik(
             f, LiteralEnd(f, OptionalCharEnd(f, WsEnd(f, p), {"-", "EN", "EM"}), ROMANTIK))
SeriesPrefixEnd(f) == PrefixAfterEisenbahn(f, LiteralEnd(f, WsEnd(f, 1), EISENBAHN))

\* SERIES_PREFIX_RE.sub("", x).strip()
CutPrefix(x, e) == IF e = 0 THEN Strip(x) ELSE Strip(SubSeq(x, e, Len(x)))
\* mutant: the prefix is left in place
StripPrefixStr_Keep(x) == Strip(x)
StripPrefixStr(x) == CutPrefix(x, SeriesPrefixEnd(x))

strip_series_prefix(v) == IF ~Truthy(v) THEN PyStr(<<>>) ELSE PyStr(StripPrefixStr(v.str))

\* needle in hay
IsSubstring(needle, hay) ==
    \E i \in 0..(Len(hay) - Len(needle)) : SubSeq(hay, i + 1, i + Len(needle)) = needle

\* mutant: the padding space after the query left out
contains_whole_query_LeftPadded(query, candidate) ==
    /\ query # <<>> /\ candidate # <<>>
    /\ IsSubstring(<<" ">> \o query, <<" ">> \o candidate \o <<" ">>)

\* mutant: the candidate must be longer than the query
contains_whole_query_Proper(query, candidate) ==
    /\ query # <<>> /\ candidate # <<>>
    /\ Len(candidate) > Len(query)
    /\ IsSubstring(<<" ">> \o query \o <<" ">>, <<" ">> \o candidate \o <<" ">>)

\* mutant: query in candidate, without the padding spaces
contains_whole_query_Substring(query, candidate) ==
    /\ query # <<>> /\ candidate # <<>>
    /\ IsSubstring(query, candidate)

contains_whole_query(query, candidate) ==
    /\ query # <<>> /\ candidate # <<>>
    /\ IsSubstring(<<" ">> \o query \o <<" ">>, <<" ">> \o candidate \o <<" ">>)

(***************************************************************************)
(* difflib.SequenceMatcher(None, a, b).ratio(), offsets 0-based as in      *)
(* difflib; a score is the fraction <<numerator, denominator>>.            *)
(***************************************************************************)
\* length of the common run of a from i and b from j inside a[..ahi], b[..bhi]
RECURSIVE RunLen(_, _, _, _, _, _)
RunLen(a, b, i, j, ahi, bhi) ==
    IF i < ahi /\ j < bhi /\ a[i + 1] = b[j + 1]
    THEN 1 + RunLen(a, b, i + 1, j + 1, ahi, bhi) ELSE 0

\* the longest block; of the longest the one starting first in a, then first in b
BestBlock(bs) ==
    CHOOSE x \in bs : \A y \in bs :
        \/ x[3] > y[3]
        \/ x[3] = y[3] /\ x[1] < y[1]
        \/ x[3] = y[3] /\ x[1] = y[1] /\ x[2] <= y[2]

find_longest_match(a, b, alo, ahi, blo, bhi) ==
    IF alo >= ahi \/ blo >= bhi THEN <<alo, blo, 0>>
    ELSE BestBlock({<<i, j, RunLen(a, b, i, j, ahi, bhi)>> :
                        i \in alo..(ahi - 1), j \in blo..(bhi - 1)})

\* get_matching_blocks: the characters in the matching blocks of a[alo..ahi], b[blo..bhi]
RECURSIVE MatchedChars(_, _, _, _, _, _)
RECURSIVE MatchedAround(_, _, _, _, _, _, _)
MatchedAround(a, b, alo, ahi, blo, bhi, m) ==
    IF m[3] = 0 THEN 0
    ELSE m[3] + MatchedChars(a, b, alo, m[1], blo, m[2])
              + MatchedChars(a, b, m[1] + m[3], ahi, m[2] + m[3], bhi)
MatchedChars(a, b, alo, ahi, blo, bhi) ==
    MatchedAround(a, b, alo, ahi, blo, bhi, find_longest_match(a, b, alo, ahi, blo, bhi))

\* 2.0 * matches / (len(a) + len(b)); 1.0 when both are empty
ratio(a, b) ==
    IF Len(a) + Len(b) = 0 THEN <<1, 1>>
    ELSE <<2 * MatchedChars(a, b, 0, Len(a), 0, Len(b)), Len(a) + Len(b)>>

\* mutant: score >= best_score, a later candidate replaces an equal one
ScoreGreater_OrEqual(x, y) == x[1] * y[2] >= y[1] * x[2]
ScoreGreater(x, y) == x[1] * y[2] > y[1] * x[2]
ScoreZero == <<0, 1>>
ScoreOne == <<1, 1>>

\* one entry of load_episodes' list, from the record e of the export
LoadEpisode(e) ==
    [season_episode_code |-> PyStr(OrEmpty(e.season_episode_code)),
     air_date_iso |-> PyStr(OrEmpty(e.air_date_iso)),
     abs_episode |-> e.abs_episode,
     title |-> PyStr(OrEmpty(e.title)),
     norm_title |-> er_normalize(PyStr(OrEmpty(e.title))).str,
     norm_title_noprefix |-> er_normalize(strip_series_prefix(PyStr(OrEmpty(e.title)))).str]
load_episodes(data) == [i \in 1..Len(data) |-> LoadEpisode(data[i])]

(***************************************************************************)
(* er_matching.py: filename construction.  An episode is a dict; a field   *)
(* that is absent reads as None, as ep.get gives it.                       *)
(***************************************************************************)
DecimalDigits == <<"0", "1", "2", "3", "4", "5", "6", "7", "8", "9">>

\* str(n) of an int
RECURSIVE str_nat(_)
str_nat(n) ==
    IF n < 10 THEN <<DecimalDigits[n + 1]>>
    ELSE str_nat(n \div 10) \o <<DecimalDigits[(n % 10) + 1]>>
str_int(n) == IF n < 0 THEN <<"-">> \o str_nat(0 - n) ELSE str_nat(n)

\* a value as an f-string or str() renders it
Format(v) ==
    CASE v.type = "str" -> v.str
      [] v.type = "int" -> str_int(v.num)
      [] OTHER -> <<"N", "o", "n", "e">>

\* re.sub(r'[:*?"<>|]', "", s)
ILLEGAL_CHARS == {":", "*", "?", "\"", "<", ">", "|"}
RemoveChars(x, cs) == Flatten([i \in 1..Len(x) |-> IF x[i] \in cs THEN <<>> ELSE <<x[i]>>])

\* mutant: the string is trimmed before the characters are removed
SanitizeStr_StripFirst(x) ==
    RemoveChars(ReplaceChar(ReplaceChar(Strip(x), "/", <<"-">>), "\\", <<"-">>), ILLEGAL_CHARS)

SanitizeStr(x) ==
    Strip(RemoveChars(ReplaceChar(ReplaceChar(x, "/", <<"-">>), "\\", <<"-">>), ILLEGAL_CHARS))

sanitize_for_filename(v) ==
    IF ~Truthy(v) THEN PyStr(<<>>)
    ELSE IF IsStr(v) THEN PyStr(SanitizeStr(v.str))
    ELSE Raised("AttributeError")

SERIES_FILE_PREFIX ==
    <<"E", "i", "s", "e", "n", "b", "a", "h", "n", "-", "R", "o", "m", "a", "n", "t", "i", "k", " ">>
S00E00 == <<"S", "0", "0", "E", "0", "0">>
NO_DATE == <<"0", "0", "0", "0", "-", "0", "0", "-", "0", "0">>
UNKNOWN_TITLE == <<"U", "n", "k", "n", "o", "w", "n", " ", "T", "i", "t", "l", "e">>
MP4 == <<".", "m", "p", "4">>

\* x or default
OrDefault(v, default) == IF Truthy(v) THEN v ELSE PyStr(default)

\* mutant: underscores instead of " - " between the segments
FileNameOf_Underscores(season_code, air_date, abs_ep_str, sanitized) ==
    IF ~IsStr(sanitized) THEN sanitized
    ELSE PyStr(SERIES_FILE_PREFIX \o season_code \o <<"_">> \o air_date \o <<"_">>
               \o abs_ep_str \o <<"_">> \o sanitized.str \o MP4)

\* f"Eisenbahn-Romantik {season_code} - {air_date} - {abs_ep_str} - {title}.mp4"
FileNameOf(season_code, air_date, abs_ep_str, sanitized) ==
    IF ~IsStr(sanitized) THEN sanitized
    ELSE PyStr(SERIES_FILE_PREFIX \o season_code \o SepLit \o air_date \o SepLit
               \o abs_ep_str \o SepLit \o sanitized.str \o MP4)

\* mutant: the absolute number padded with zeros to four digits
build_new_filename_PaddedAbs(e) ==
    FileNameOf(Format(OrDefault(e.season_episode_code, S00E00)),
               Format(OrDefault(e.air_date_iso, NO_DATE)),
               IF e.abs_episode # PyNone
               THEN SubSeq(<<"0", "0", "0">>, 1, 4 - Len(Format(e.abs_episode)))
                    \o Format(e.abs_episode)
               ELSE <<"0">>,
               sanitize_for_filename(OrDefault(e.title, UNKNOWN_TITLE)))

\* build_new_filename(ep), e the dict passed as ep
build_new_filename(e) ==
    FileNameOf(Format(OrDefault(e.season_episode_code, S00E00)),
               Format(OrDefault(e.air_date_iso, NO_DATE)),
               IF e.abs_episode # PyNone THEN Format(e.abs_episode) ELSE <<"0">>,
               sanitize_for_filename(OrDefault(e.title, UNKNOWN_TITLE)))

(***************************************************************************)
(* convert_er_filmliste_json_to_csv.py: deduplication of the film list.    *)
(* A row of the frame is a record of the columns title, date, start_time,  *)
(* duration (Python values) and episode (an integer).                      *)
(***************************************************************************)
\* \beisenbahn\s*romantik\b at p: the position after it, or 0 (the text is
\* in lower case when the pattern is applied)
BoundaryAt(x, r) == IF r # 0 /\ WordBoundary(x, r) THEN r ELSE 0
RomantikEnd(x, q) == IF q = 0 THEN 0 ELSE BoundaryAt(x, LiteralEnd(x, WsEnd(x, q), ROMANTIK))
SeriesWordsEnd(x, p) ==
    IF WordBoundary(x, p) THEN RomantikEnd(x, LiteralEnd(x, p, EISENBAHN)) ELSE 0

\* re.sub(r"\beisenbahn\s*romantik\b", "", s), from position p on
RECURSIVE RemoveSeriesWords(_, _)
RemoveSeriesWords(x, p) ==
    IF p > Len(x) THEN <<>>
    ELSE IF SeriesWordsEnd(x, p) # 0 THEN RemoveSeriesWords(x, SeriesWordsEnd(x, p))
    ELSE <<x[p]>> \o RemoveSeriesWords(x, p + 1)

NormalizeTitleStr(x) ==
    Strip(CollapseWs(RemoveSeriesWords(
        SelectSeq(NFKD(ReplaceChar(ReplaceChar(Lower(x), "EN", <<"-">>), "EM", <<"-">>)),
                  LAMBDA c : IsAlnum(c) \/ IsSpace(c)), 1)))

normalize_title(v) == IF IsStr(v) THEN NormalizeTitleStr(v.str) ELSE <<>>

\* str.split(c)
RECURSIVE Split(_, _)
Split(x, c) ==
    IF \E i \in 1..Len(x) : x[i] = c
    THEN <<SubSeq(x, 1, Least({i \in 1..Len(x) : x[i] = c}) - 1)>>
         \o Split(SubSeq(x, Least({i \in 1..Len(x) : x[i] = c}) + 1, Len(x)), c)
    ELSE <<x>>

DigitValue(c) == (CHOOSE i \in 1..Len(DecimalDigits) : DecimalDigits[i] = c) - 1
RECURSIVE NatOf(_)
NatOf(ds) ==
    IF ds = <<>> THEN 0 ELSE 10 * NatOf(SubSeq(ds, 1, Len(ds) - 1)) + DigitValue(ds[Len(ds)])
IsDigits(ds) == ds # <<>> /\ \A i \in 1..Len(ds) : IsDigit(ds[i])

\* int(x): surrounding whitespace and a sign are accepted
Unsigned(x) == IF x # <<>> /\ x[1] \in {"+", "-"} THEN Tail(x) ELSE x
IntValid(x) == IsDigits(Unsigned(Strip(x)))
IntValue(x) ==
    IF Strip(x)[1] = "-" THEN 0 - NatOf(Unsigned(Strip(x))) ELSE NatOf(Unsigned(Strip(x)))

\* h, m, s = map(int, t.split(":")); any failure gives 0
SecondsOf(parts) ==
    IF Len(parts) = 3 /\ \A i \in 1..Len(parts) : IntValid(parts[i])
    THEN IntValue(parts[1]) * 3600 + IntValue(parts[2]) * 60 + IntValue(parts[3])
    ELSE 0
parse_duration_to_seconds(v) == IF IsStr(v) THEN SecondsOf(Split(v.str, ":")) ELSE 0

DaysIn(m, y) ==
    IF m \in {4, 6, 9, 11} THEN 30
    ELSE IF m # 2 THEN 31
    ELSE IF y % 4 = 0 /\ (y % 100 # 0 \/ y % 400 = 0) THEN 29 ELSE 28

\* the date <<year, month, day>> of the parts of a %d.%m.%Y text, or NaT (<<>>)
DateOf(parts) ==
    IF /\ Len(parts) = 3
       /\ \A i \in 1..Len(parts) : IsDigits(parts[i])
       /\ Len(parts[1]) <= 2 /\ Len(parts[2]) <= 2 /\ Len(parts[3]) = 4
       /\ NatOf(parts[2]) \in 1..12
       /\ NatOf(parts[1]) \in 1..DaysIn(NatOf(parts[2]), NatOf(parts[3]))
    THEN <<NatOf(parts[3]), NatOf(parts[2]), NatOf(parts[1])>>
    ELSE <<>>
\* pd.to_datetime(x, format="%d.%m.%Y", errors="coerce")
to_datetime(v) == IF IsStr(v) THEN DateOf(Split(v.str, ".")) ELSE <<>>

\* the characters of the sort keys in code point order
CODE_POINT_ORDER ==
    <<" ", "+", "-", ".", "/", "0", "1", "2", "3", "4", "5", "6", "7", "8", "9", ":",
      "E", "R", "S", "a", "b", "d", "e", "f", "g", "h", "i", "k", "l", "m", "n", "o", "p", "r", "s", "t",
      "u", "w", "x">>
CodePointRank(c) == CHOOSE i \in 1..Len(CODE_POINT_ORDER) : CODE_POINT_ORDER[i] = c
\* a < b for two str
RECURSIVE StrLess(_, _)
StrLess(a, b) ==
    IF b = <<>> THEN FALSE
    ELSE IF a = <<>> THEN TRUE
    ELSE IF Head(a) # Head(b) THEN CodePointRank(Head(a)) < CodePointRank(Head(b))
    ELSE StrLess(Tail(a), Tail(b))

\* the helper columns _title_norm, _date_dt, _dur_s, _start_norm of a row
SortKey(r) ==
    [episode |-> r.episode,
     title_norm |-> normalize_title(r.title),
     date_dt |-> to_datetime(r.date),
     dur_s |-> parse_duration_to_seconds(r.duration),
     start_norm |-> Strip(Format(r.start_time))]

\* a comes later than b; NaT sorts last (na_position="last")
DateLater(a, b) ==
    /\ a # <<>>
    /\ \/ b = <<>>
       \/ a[1] > b[1]
       \/ a[1] = b[1] /\ a[2] > b[2]
       \/ a[1] = b[1] /\ a[2] = b[2] /\ a[3] > b[3]

\* subset=["episode", "_title_norm"]
SameGroup(a, b) == a.episode = b.episode /\ a.title_norm = b.title_norm

\* mutant: _dur_s sorted ascending
Precedes_DurAscending(a, b, by) ==
    IF by = "date" THEN DateLater(a.date_dt, b.date_dt)
    ELSE IF a.episode # b.episode THEN a.episode < b.episode
    ELSE IF a.title_norm # b.title_norm THEN StrLess(a.title_norm, b.title_norm)
    ELSE IF a.date_dt # b.date_dt THEN DateLater(a.date_dt, b.date_dt)
    ELSE IF a.dur_s # b.dur_s THEN a.dur_s < b.dur_s
    ELSE StrLess(b.start_norm, a.start_norm)

\* key a sorts strictly before key b: by = "rank" for the sort on episode,
\* _title_norm (ascending), _date_dt, _dur_s, _start_norm (descending),
\* by = "date" for the sort on _date_dt (descending)
Precedes(a, b, by) ==
    IF by = "date" THEN DateLater(a.date_dt, b.date_dt)
    ELSE IF a.episode # b.episode THEN a.episode < b.episode
    ELSE IF a.title_norm # b.title_norm THEN StrLess(a.title_norm, b.title_norm)
    ELSE IF a.date_dt # b.date_dt THEN DateLater(a.date_dt, b.date_dt)
    ELSE IF a.dur_s # b.dur_s THEN a.dur_s > b.dur_s
    ELSE StrLess(b.start_norm, a.start_norm)

\* x put before the first element it precedes, after its equals (stable)
InsertAt(sorted, x, later) ==
    IF later = {} THEN Append(sorted, x)
    ELSE SubSeq(sorted, 1, Least(later) - 1) \o <<x>> \o SubSeq(sorted, Least(later), Len(sorted))

\* the row x put into the sorted rows
InsertRow(sorted, x, by) ==
    InsertAt(sorted, x, {i \in 1..Len(sorted) : Precedes(x.key, sorted[i].key, by)})

\* mutant: the frame is left in its input order
sort_values_Unsorted(rows, by) == rows

\* df.sort_values(by=..., ascending=..., kind="mergesort")
RECURSIVE sort_values(_, _)
sort_values(rows, by) ==
    IF rows = <<>> THEN <<>>
    ELSE InsertRow(sort_values(SubSeq(rows, 1, Len(rows) - 1), by), rows[Len(rows)], by)

\* mutant: rows are duplicates when their episode numbers agree
RECURSIVE drop_duplicates_EpisodeOnly(_)
drop_duplicates_EpisodeOnly(rows) ==
    IF rows = <<>> THEN <<>>
    ELSE IF \E j \in 1..(Len(rows) - 1) : rows[j].key.episode = rows[Len(rows)].key.episode
    THEN drop_duplicates_EpisodeOnly(SubSeq(rows, 1, Len(rows) - 1))
    ELSE Append(drop_duplicates_EpisodeOnly(SubSeq(rows, 1, Len(rows) - 1)), rows[Len(rows)])

\* df.drop_duplicates(subset=["episode", "_title_norm"], keep="first")
RECURSIVE drop_duplicates(_)
drop_duplicates(rows) ==
    IF rows = <<>> THEN <<>>
    ELSE IF \E j \in 1..(Len(rows) - 1) : SameGroup(rows[j].key, rows[Len(rows)].key)
    THEN drop_duplicates(SubSeq(rows, 1, Len(rows) - 1))
    ELSE Append(drop_duplicates(SubSeq(rows, 1, Len(rows) - 1)), rows[Len(rows)])

\* the frame with its helper columns, and without them
AddHelperColumns(rows) == [i \in 1..Len(rows) |-> [row |-> rows[i], key |-> SortKey(rows[i])]]
DropHelperColumns(rows) == [i \in 1..Len(rows) |-> rows[i].row]

\* mutant: the frame is returned in the order of the deduplication sort
dedupe_final_NoFinalSort(rows) ==
    IF rows = <<>> THEN rows
    ELSE DropHelperColumns(drop_duplicates(sort_values(AddHelperColumns(rows), "rank")))

dedupe_final(rows) ==
    IF rows = <<>> THEN rows
    ELSE DropHelperColumns(
             sort_values(drop_duplicates(sort_values(AddHelperColumns(rows), "rank")), "date"))

(***************************************************************************)
(* find_er_duplicates.py: filename parsing and the duplicate report.       *)
(***************************************************************************)
\* a literal word at p (case-sensitive): the position after it, or 0
RECURSIVE ExactEnd(_, _, _)
ExactEnd(f, p, word) ==
    IF word = <<>> THEN p
    ELSE IF CharAt(f, p) = Head(word) THEN ExactEnd(f, p + 1, Tail(word))
    ELSE 0

SERIES_FILE_NAME ==
    <<"E", "i", "s", "e", "n", "b", "a", "h", "n", "-", "R", "o", "m", "a", "n", "t", "i", "k">>

\* (?P<episode_code>S\d{2,4}E\d{1,3}) at p: the position after it, or 0
EpisodeCodeEnd(f, p) ==
    IF /\ CharAt(f, p) = "S"
       /\ DigitsEnd(f, p + 1) - (p + 1) \in 2..4
       /\ CharAt(f, DigitsEnd(f, p + 1)) = "E"
       /\ DigitsEnd(f, DigitsEnd(f, p + 1) + 1) - (DigitsEnd(f, p + 1) + 1) \in 1..3
    THEN DigitsEnd(f, DigitsEnd(f, p + 1) + 1) ELSE 0

\* (?P<title>.+)\.mp4$ after the separator that ends at p: where the title
\* starts, or 0; the separator's \s* gives back one character if the title
\* would be empty
TitleStart(f, p) ==
    IF Len(f) < 4 \/ SubSeq(f, Len(f) - 3, Len(f)) # MP4 THEN 0
    ELSE IF p <= Len(f) - 4 THEN p
    ELSE IF IsSpace(CharAt(f, p - 1)) THEN p - 1
    ELSE 0

\* FILENAME_RE.match(name), piece by piece: the groups, or <<>> for no match
DupGroups(f, code, codeEnd, date, dateEnd, abs, absEnd, titleAt) ==
    IF codeEnd = 0 \/ dateEnd = 0 \/ absEnd = abs \/ titleAt = 0 THEN <<>>
    ELSE <<[episode_code |-> SubSeq(f, code, codeEnd - 1),
            broadcast_date |-> SubSeq(f, date, dateEnd - 1),
            abs_episode |-> SubSeq(f, abs, absEnd - 1),
            title |-> SubSeq(f, titleAt, Len(f) - 4)]>>
DupFromAbs(f, code, codeEnd, date, dateEnd, abs) ==
    IF abs = 0 \/ SepEnd(f, DigitsEnd(f, abs)) = 0 THEN <<>>
    ELSE DupGroups(f, code, codeEnd, date, dateEnd, abs, DigitsEnd(f, abs),
                   TitleStart(f, SepEnd(f, DigitsEnd(f, abs))))
DupFromDate(f, code, codeEnd, date) ==
    IF date = 0 \/ DateEnd(f, date) = 0 THEN <<>>
    ELSE DupFromAbs(f, code, codeEnd, date, DateEnd(f, date), SepEnd(f, DateEnd(f, date)))
DupFromCode(f, code) ==
    IF EpisodeCodeEnd(f, code) = 0 THEN <<>>
    ELSE DupFromDate(f, code, EpisodeCodeEnd(f, code), SepEnd(f, EpisodeCodeEnd(f, code)))
FILENAME_RE_match(f) ==
    IF ExactEnd(f, 1, SERIES_FILE_NAME) = 0 THEN <<>>
    ELSE IF WsEnd(f, ExactEnd(f, 1, SERIES_FILE_NAME)) = ExactEnd(f, 1, SERIES_FILE_NAME) THEN <<>>
    ELSE DupFromCode(f, WsEnd(f, ExactEnd(f, 1, SERIES_FILE_NAME)))

\* str(p) of the path p
PathStr(p) == p.directory \o <<"/">> \o p.name

\* parse_filename(p): the row, or <<>> for None (the file size is carried
\* along unread and left out)
parse_filename(p) ==
    IF FILENAME_RE_match(p.name) = <<>> THEN <<>>
    ELSE <<[directory |-> p.directory,
            filename |-> p.name,
            path |-> PathStr(p),
            episode_code |-> FILENAME_RE_match(p.name)[1].episode_code,
            broadcast_date |-> FILENAME_RE_match(p.name)[1].broadcast_date,
            abs_episode |-> NatOf(FILENAME_RE_match(p.name)[1].abs_episode),
            title |-> FILENAME_RE_match(p.name)[1].title]>>

\* df.duplicated(subset=[key], keep=False)
Duplicated(rows, i, key) == \E j \in 1..Len(rows) : j # i /\ rows[j][key] = rows[i][key]

\* row a sorts before row b under sort_values([key, "path"])
RowBefore(a, b, key) ==
    IF a[key] = b[key] THEN StrLess(a.path, b.path)
    ELSE IF key = "abs_episode" THEN a[key] < b[key]
    ELSE StrLess(a[key], b[key])
RECURSIVE SortRows(_, _)
SortRows(rows, key) ==
    IF rows = <<>> THEN <<>>
    ELSE InsertAt(SortRows(SubSeq(rows, 1, Len(rows) - 1), key), rows[Len(rows)],
                  {i \in 1..(Len(rows) - 1) :
                      RowBefore(rows[Len(rows)], SortRows(SubSeq(rows, 1, Len(rows) - 1), key)[i], key)})

\* the rows of df whose key value another row has, in the order of df
RECURSIVE DuplicatedRows(_, _, _)
DuplicatedRows(rows, n, key) ==
    IF n = 0 THEN <<>>
    ELSE DuplicatedRows(rows, n - 1, key) \o (IF Duplicated(rows, n, key) THEN <<rows[n]>> ELSE <<>>)

\* print_duplicates(df, key): the rows it lists, in the order it lists them
print_duplicates(rows, key) == SortRows(DuplicatedRows(rows, Len(rows), key), key)

(***************************************************************************)
(* fetch-railway-romance-episodes.py, fetch-railway-romance-specials.py:   *)
(* absolute numbers and target filenames of a scraped list.                *)
(***************************************************************************)
\* s.rstrip(" .")
RECURSIVE RStripDots(_)
RStripDots(x) ==
    IF x # <<>> /\ x[Len(x)] \in {" ", "."} THEN RStripDots(SubSeq(x, 1, Len(x) - 1)) ELSE x

sanitize_filename_component(x) ==
    RStripDots(Strip(CollapseWs(
        RemoveChars(ReplaceChar(ReplaceChar(x, "/", <<"-">>), "\\", <<"-">>), ILLEGAL_CHARS))))

build_target_filename(e) ==
    SERIES_FILE_PREFIX \o e.season_episode_code.str \o <<" ", "-", " ">> \o e.air_date_iso.str
        \o <<" ", "-", " ">> \o (IF e.abs_episode = PyNone THEN <<>> ELSE str_int(e.abs_episode.num))
        \o <<" ", "-", " ">> \o sanitize_filename_component(e.title.str) \o MP4

\* ep.abs_episode = idx; ep.target_filename = build_target_filename(ep)
AssignOne(e, n) ==
    [e EXCEPT !.abs_episode = PyInt(n),
              !.target_filename = PyStr(build_target_filename([e EXCEPT !.abs_episode = PyInt(n)]))]
assign_absolute_numbers_and_filenames(eps) == [i \in 1..Len(eps) |-> AssignOne(eps[i], i)]

(***************************************************************************)
(* er_matching.py: the title of a downloaded file.                         *)
(***************************************************************************)
\* os.path.splitext(name)[0]: the name up to its last dot, unless only dots
\* come before that dot
LastDot(x) == CHOOSE i \in 1..Len(x) : x[i] = "." /\ \A k \in (i + 1)..Len(x) : x[k] # "."
SplitExtRoot(x) ==
    IF (\A i \in 1..Len(x) : x[i] # ".") \/ (\A j \in 1..(LastDot(x) - 1) : x[j] = ".")
    THEN x
    ELSE SubSeq(x, 1, LastDot(x) - 1)

\* [- ]* (greedy): the first position at or after p that holds neither
RECURSIVE DashSpaceEnd(_, _)
DashSpaceEnd(f, p) == IF CharAt(f, p) \in {"-", " "} THEN DashSpaceEnd(f, p + 1) ELSE p

\* ^Eisenbahn[- ]?Romantik[- ]* (IGNORECASE): the position after it, or 0
LeadingRomantikEnd(f, p) ==
    IF p = 0 THEN 0
    ELSE IF LiteralEnd(f, IF CharAt(f, p) \in {"-", " "} THEN p + 1 ELSE p, ROMANTIK) = 0 THEN 0
    ELSE DashSpaceEnd(f, LiteralEnd(f, IF CharAt(f, p) \in {"-", " "} THEN p + 1 ELSE p, ROMANTIK))
LeadingSeriesEnd(f) == LeadingRomantikEnd(f, LiteralEnd(f, 1, EISENBAHN))
CutLeadingSeries(x) ==
    IF LeadingSeriesEnd(x) = 0 THEN x ELSE SubSeq(x, LeadingSeriesEnd(x), Len(x))

\* [- ]\d{5,}$: the positions a match starts at
TrailingIdStarts(x) ==
    {p \in 1..Len(x) : /\ x[p] \in {"-", " "}
                       /\ Len(x) - p >= 5
                       /\ \A i \in (p + 1)..Len(x) : IsDigit(x[i])}
CutTrailingId(x) ==
    IF TrailingIdStarts(x) = {} THEN x ELSE SubSeq(x, 1, Least(TrailingIdStarts(x)) - 1)

ExtractRawTitleStr(x) ==
    Strip(ReplaceChar(Strip(CutTrailingId(CutLeadingSeries(SplitExtRoot(x)))), "_", <<" ">>))
extract_raw_title_from_filename(x) == PyStr(ExtractRawTitleStr(x))

(***************************************************************************)
(* Inputs of the key extractor.  A filename is kept as the parts it is     *)
(* written from; the extractor reads the joined characters.                *)
(***************************************************************************)
Join(p) ==
    p.prefix \o p.se \o p.sep1 \o p.date \o p.sep2 \o p.abs \o p.xl \o p.sep3 \o p.title

Prefixes == {<<>>, <<"T", " ">>, <<"x">>}
SeasonEpisodes ==
    {<<"S", "1", "E", "2">>, <<"s", "1", "e", "2">>, <<"S", "1", "1", "1", "1", "1", "E", "2">>}
Separators == {<<" ", "-", " ">>, <<"-">>}
Dates ==
    {<<"2", "0", "2", "4", "-", "0", "3", "-", "2", "2">>,
     <<"2", "0", "2", "4", "-", "3", "-", "2", "2">>}
AbsStrings == SeqsUpTo({"7"}, MaxAbsLen)
\* the XL qualifier as written after the digits: " XL", "XL", "-XL" in any case
XlForms ==
    {lead \o <<x, l>> : lead \in {<<" ">>, <<>>, <<"-">>}, x \in {"X", "x"}, l \in {"L", "l"}}
XlInitial == {<<>>, <<" ", "X", "L">>, <<"-", "x", "l">>, <<" ", "X">>}
Titles == {<<"T", ".", "m", "k", "k">>}

Filenames ==
    [prefix : Prefixes, se : SeasonEpisodes, sep1 : Separators, date : Dates,
     sep2 : {<<" ", "-", " ">>}, abs : AbsStrings, xl : XlInitial,
     sep3 : Separators \cup {<<>>}, title : Titles]

NoFile ==
    [prefix |-> <<>>, se |-> <<>>, sep1 |-> <<>>, date |-> <<>>, sep2 |-> <<>>,
     abs |-> <<>>, xl |-> <<>>, sep3 |-> <<>>, title |-> <<>>]

XlSuffix == <<" ", "X", "L">>
XlPrefix == <<"X", "L", " ">>
Cells(xs) == {PyStr(x) : x \in xs} \cup {PyNone}
AbsCells ==
    Cells(AbsStrings \cup {d \o XlSuffix : d \in AbsStrings}
          \cup {XlPrefix \o d : d \in AbsStrings})
\* rows with every cell filled, and rows with a missing SeasonEpisode or Date
Rows ==
    [SeasonEpisode : {PyStr(<<"S", "1", "E", "2">>), PyStr(<<" ", "s", "1", "e", "2">>)},
     Date : {PyStr(<<"2", "0", "2", "4", "-", "0", "3", "-", "2", "2">>)},
     AbsEpisode : AbsCells]
    \cup
    [SeasonEpisode : Cells({<<"S", "1", "E", "2">>}),
     Date : Cells({<<"2", "0", "2", "4", "-", "0", "3", "-", "2", "2">>}),
     AbsEpisode : Cells({<<"7">>})]

NoRow == [SeasonEpisode |-> NotRun, Date |-> NotRun, AbsEpisode |-> NotRun]

(***************************************************************************)
(* Inputs of the directory scan: entries of the tree under --dir, directly *)
(* inside it (depth 0) or inside a subdirectory (depth 1).                 *)
(***************************************************************************)
EpisodeName(abs, xl, sep3) ==
    [prefix |-> <<"T", " ">>, se |-> <<"S", "1", "E", "2">>, sep1 |-> <<" ", "-", " ">>,
     date |-> <<"2", "0", "2", "4", "-", "0", "3", "-", "2", "2">>, sep2 |-> <<" ", "-", " ">>,
     abs |-> abs, xl |-> xl, sep3 |-> sep3, title |-> <<"T", ".", "m", "k", "k">>]
IndexNames ==
    {EpisodeName(<<"7">>, <<>>, <<" ", "-", " ">>),
     EpisodeName(<<"7">>, XlSuffix, <<" ", "-", " ">>),
     EpisodeName(<<"7", "7">>, <<>>, <<" ", "-", " ">>),
     EpisodeName(<<"7", "7">>, <<>>, <<>>)}
Entries == [name : IndexNames, kind : {"file", "dir"}, depth : {0, 1}]

\* a tree: names are unique inside --dir, and a nested entry needs a subdirectory
IsTree(es) ==
    /\ \A e1 \in es : \A e2 \in es :
          (e1.depth = 0 /\ e2.depth = 0 /\ e1.name = e2.name) => e1 = e2
    /\ (\E e \in es : e.depth = 1) => (\E e \in es : e.depth = 0 /\ e.kind = "dir")
Trees == {es \in SUBSET Entries : Cardinality(es) <= MaxEntries /\ IsTree(es)}

IndexRow(abs) ==
    [SeasonEpisode |-> PyStr(<<"S", "1", "E", "2">>),
     Date |-> PyStr(<<"2", "0", "2", "4", "-", "0", "3", "-", "2", "2">>),
     AbsEpisode |-> abs]
IndexRows ==
    {IndexRow(PyStr(<<"7">> \o XlSuffix)), IndexRow(PyStr(<<"7", "7">>)),
     [SeasonEpisode |-> PyNone, Date |-> PyNone, AbsEpisode |-> PyNone]}

(***************************************************************************)
(* Inputs of the matcher.                                                  *)
(***************************************************************************)
SeriesName ==
    <<"E", "i", "s", "e", "n", "b", "a", "h", "n", "-", "R", "o", "m", "a", "n", "t", "i", "k">>
SeriesNameSpaced ==
    <<"e", "i", "s", "e", "n", "b", "a", "h", "n", " ", "R", "O", "M", "A", "N", "T", "I", "K">>

\* queries without any title text: empty, blank, punctuation, the bare series name
BlankQueries ==
    {PyNone, PyStr(<<>>), PyStr(<<" ">>), PyStr(<<" ", "NBSP">>), PyStr(<<"-", ":">>),
     PyStr(SeriesName), PyStr(<<" ">> \o SeriesNameSpaced \o <<" ", ":", " ">>)}
TitleQueries ==
    {PyStr(<<"b">>), PyStr(<<"a", " ", "b">>), PyStr(<<"b", "a">>), PyStr(<<"B", "_", "a">>),
     PyStr(<<"x">>), PyStr(<<"b", "x">>), PyStr(SeriesNameSpaced \o <<":", " ", "a", "b">>)}
Queries == BlankQueries \cup TitleQueries

CatalogTitles ==
    {PyStr(SeriesName \o <<":", " ", "a", " ", "B">>), PyStr(<<"b">>), PyStr(<<"a", "b">>),
     PyStr(<<"b", " ", "a">>), PyStr(SeriesName), PyNone}
\* the record of the export that carries title t
CatalogRecord(t) ==
    [season_episode_code |-> PyStr(<<"S", "0", "1", "E", "0", "1">>),
     air_date_iso |-> PyStr(<<"2", "0", "0", "6", "-", "0", "7", "-", "1", "0">>),
     abs_episode |-> PyInt(1),
     title |-> t]
Catalogs ==
    {load_episodes(d) : d \in SeqsUpTo({CatalogRecord(t) : t \in CatalogTitles}, MaxCatalog)}

NoResult == [ep |-> -1, score |-> ScoreZero]

(***************************************************************************)
(* Inputs of the filename builder.                                         *)
(***************************************************************************)
BuildCodes ==
    {PyNone, PyStr(<<>>), PyStr(<<"S", "0", "1", "E", "0", "1">>),
     PyStr(<<"S", "2", "0", "2", "4", "E", "1", "0">>)}
BuildDates == {PyNone, PyStr(<<>>), PyStr(<<"2", "0", "0", "6", "-", "0", "7", "-", "1", "0">>)}
BuildAbs == {PyNone, PyInt(0), PyInt(1), PyInt(10), PyInt(1071)}
BuildTitles ==
    {PyNone, PyStr(<<>>), PyStr(<<" ">>), PyStr(<<"?">>), PyStr(<<"?", " ", "a">>),
     PyStr(<<" ", "a", "/", "b", "\\", "B", "NBSP">>),
     PyStr(<<"<", "a", ">", "|", "\"", "*", ":", " ", "b">>),
     PyStr(<<"X", "L", " ", "-", " ", "a">>),
     PyStr(<<"D", "i", "e", " ", "G", "o", "t", "t", "h", "a", "r", "d", "b", "a", "h", "n">>)}
BuildEpisodes ==
    [season_episode_code : BuildCodes, air_date_iso : BuildDates, abs_episode : BuildAbs,
     title : BuildTitles]
NoEpisode ==
    [season_episode_code |-> NotRun, air_date_iso |-> NotRun, abs_episode |-> NotRun,
     title |-> NotRun]

(***************************************************************************)
(* Inputs of the deduplication: rows of the reduced film list.             *)
(***************************************************************************)
FilmRow(t, d, st, du, e) ==
    [title |-> PyStr(t), date |-> PyStr(d), start_time |-> PyStr(st), duration |-> PyStr(du),
     episode |-> e]
FilmRows ==
    LET feb1 == <<"0", "1", ".", "0", "2", ".", "2", "0", "2", "0">>
        feb2 == <<"0", "2", ".", "0", "2", ".", "2", "0", "2", "0">>
        feb30 == <<"3", "0", ".", "0", "2", ".", "2", "0", "2", "0">>
        evening == <<"2", "0", ":", "1", "5">>
        morning == <<" ", "9", ":", "0", "0">>
        half == <<"0", "0", ":", "3", "0", ":", "0", "0">>
        halfShort == <<"0", ":", "3", "0", ":", "0">>
        long == <<"0", "0", ":", "4", "5", ":", "0", "0">>
    IN {FilmRow(<<"A">>, feb1, evening, half, 1),
        FilmRow(<<"a">>, feb1, evening, half, 1),
        FilmRow(<<"A">>, feb2, evening, half, 1),
        FilmRow(<<"A">>, feb30, evening, long, 1),
        FilmRow(<<"A">>, feb1, evening, long, 1),
        FilmRow(<<"A">>, feb1, morning, half, 1),
        FilmRow(<<"A">>, feb1, evening, halfShort, 1),
        FilmRow(<<"A">>, feb1, evening, half, 2),
        FilmRow(<<"A">>, feb2, evening, half, 2),
        FilmRow(<<"b">>, feb1, evening, half, 1),
        FilmRow(SeriesName \o <<" ", "EN", " ", "B">>, <<"x">>, evening, <<"4", "5">>, 1)}
Frames == SeqsUpTo(FilmRows, MaxFrame)

(***************************************************************************)
(* Inputs of the rename run: a catalog, the .mp4 files of the source       *)
(* folder (each file's content is named after the file) and the files the *)
(* destination folder holds before the run.                                *)
(***************************************************************************)
CopyTitles == {PyStr(<<"b">>), PyStr(SeriesName \o <<":", " ", "a", " ", "B">>)}
CopyCatalogs ==
    {load_episodes(d) : d \in SeqsUpTo({CatalogRecord(t) : t \in CopyTitles}, MaxCatalog)}
SourceNames ==
    {<<"b", ".", "m", "p", "4">>,
     SeriesName \o <<"_", "b", "-", "1", "2", "3", "4", "5", ".", "m", "p", "4">>,
     <<"b", "x", "x", ".", "m", "p", "4">>,
     <<"x", ".", "m", "p", "4">>,
     <<"a", "_", "B", ".", "m", "p", "4">>}
\* glob.glob: every file once, in any order
SourceListings ==
    {l \in SeqsUpTo(SourceNames, MaxFiles) : \A i \in 1..Len(l) : \A j \in 1..Len(l) : l[i] = l[j] => i = j}
\* the content of a file that was in the destination folder before the run
OLD_CONTENT == <<"o", "l", "d">>
\* the names build_new_filename gives the entries of a catalog
TargetNames(eps) == {build_new_filename(eps[k]).str : k \in 1..Len(eps)}

(***************************************************************************)
(* Inputs of the catalog tools: the lists the scrapers fetched, in the     *)
(* order the scrapers sort them.                                           *)
(***************************************************************************)
\* f"{n:0{w}d}"
RECURSIVE ZeroPad(_, _)
ZeroPad(x, w) == IF Len(x) >= w THEN x ELSE ZeroPad(<<"0">> \o x, w)
\* Episode(season_episode_code=f"S{season_raw:04d}E{ep_in_season:02d}", ...)
Episode(season, n, t, date) ==
    [season_episode_code |-> PyStr(<<"S">> \o ZeroPad(str_nat(season), 4) \o <<"E">> \o ZeroPad(str_nat(n), 2)),
     season_raw |-> season,
     ep_in_season |-> n,
     title |-> PyStr(t),
     air_date_iso |-> PyStr(date),
     abs_episode |-> PyNone,
     target_filename |-> PyStr(<<>>)]
ScrapedEpisodes ==
    {Episode(1991, 1, <<"a">>, <<"1", "9", "9", "1", "-", "0", "4", "-", "0", "7">>),
     Episode(1991, 2, <<"b", ":", " ", " ", "x", " ", ".">>, <<>>),
     Episode(1992, 1, <<"a">>, <<>>),
     Episode(0, 1, <<"a", "/", "b">>, <<>>)}
ScrapedSpecials ==
    {Episode(0, 1, <<"a", "/", "b">>, <<>>),
     Episode(0, 1, <<"b">>, <<>>),
     Episode(0, 2, <<"a">>, <<"1", "9", "9", "1", "-", "0", "4", "-", "0", "7">>)}
\* episodes.sort(key=lambda e: (e.season_raw, e.ep_in_season))
EpisodeLists ==
    {l \in SeqsUpTo(ScrapedEpisodes, MaxScraped) :
        \A i \in 1..Len(l) : \A j \in 1..Len(l) :
            i < j => \/ l[i].season_raw < l[j].season_raw
                     \/ l[i].season_raw = l[j].season_raw /\ l[i].ep_in_season <= l[j].ep_in_season}
\* uniq by (season_raw, ep_in_season, title); episodes.sort(key=lambda e: e.ep_in_season)
SpecialLists ==
    {l \in SeqsUpTo(ScrapedSpecials, MaxScraped) :
        \A i \in 1..Len(l) : \A j \in 1..Len(l) :
            i < j => l[i] # l[j] /\ l[i].ep_in_season <= l[j].ep_in_season}

(***************************************************************************)
(* Inputs of the duplicate finder: the .mp4 files of the scanned           *)
(* directories.                                                            *)
(***************************************************************************)
ArchiveName(code, date, abs, t) ==
    SERIES_FILE_NAME \o <<" ">> \o code \o <<" ", "-", " ">> \o date \o <<" ", "-", " ">> \o abs
        \o <<" ", "-", " ">> \o t \o MP4
ArchiveNames ==
    LET day1 == <<"2", "0", "0", "6", "-", "0", "7", "-", "1", "0">>
        day2 == <<"2", "0", "0", "7", "-", "0", "1", "-", "0", "2">>
        e1 == <<"S", "0", "1", "E", "0", "1">>
        e2 == <<"S", "2", "0", "0", "7", "E", "0", "2">>
    IN {ArchiveName(e1, day1, <<"1">>, <<"a">>),
        ArchiveName(e1, day1, <<"1">>, <<"b">>),
        ArchiveName(e2, day1, <<"2">>, <<"a">>),
        ArchiveName(e2, day2, <<"1">>, <<"a">>),
        ArchiveName(e1, day2, <<"1", "0">>, <<" ">>),
        ArchiveName(<<"s", "0", "1", "e", "0", "1">>, day1, <<"1">>, <<"a">>),
        <<"x", ".", "m", "p", "4">>}
ArchiveFiles ==
    {[directory |-> <<"d">>, name |-> n] : n \in ArchiveNames}
        \cup {[directory |-> <<"e">>, name |-> ArchiveName(<<"S", "0", "1", "E", "0", "1">>,
                  <<"2", "0", "0", "6", "-", "0", "7", "-", "1", "0">>, <<"1">>, <<"a">>)]}
\* scan_files: every file once, in any order
Scans ==
    {l \in SeqsUpTo(ArchiveFiles, MaxScan) : \A i \in 1..Len(l) : \A j \in 1..Len(l) : l[i] = l[j] => i = j}

(***************************************************************************)
(* State machines.  Each tool runs on its own; the variables of the other  *)
(* tools stay at their idle values.                                        *)
(***************************************************************************)
NormIdle ==
    /\ s = NotRun
    /\ norm1 = NotRun
    /\ norm2 = NotRun
    /\ erNorm = NotRun
    /\ npc = "idle"

KeyIdle ==
    /\ file = NoFile
    /\ fkey = NotRun
    /\ row = NoRow
    /\ rkey = NotRun

IndexIdle ==
    /\ dir = {}
    /\ recursive = FALSE
    /\ pending = {}
    /\ keys = {}
    /\ ipc = "idle"
    /\ marked = <<>>

MatchIdle ==
    /\ title = NotRun
    /\ episodes = <<>>
    /\ norm_title = <<>>
    /\ idx = 0
    /\ best_ep = 0
    /\ best_score = ScoreZero
    /\ mpc = "idle"
    /\ result = NoResult

BuildIdle ==
    /\ ep = NoEpisode
    /\ new_name = NotRun
    /\ name_key = NotRun
    /\ bpc = "idle"

DedupeIdle ==
    /\ df = <<>>
    /\ deduped = <<>>
    /\ prev_deduped = <<>>
    /\ dpc = "idle"

CopyIdle ==
    /\ mp4_files = <<>>
    /\ fpos = 0
    /\ destination = <<>>
    /\ copied = 0
    /\ skipped = 0
    /\ cpc = "idle"

ContainIdle ==
    /\ cw_query = <<>>
    /\ cw_candidate = <<>>
    /\ cw_result = NotRun

ScanIdle ==
    /\ stream = <<>>
    /\ chunks = <<>>
    /\ text_buf = <<>>
    /\ scan_i = 0
    /\ matches = <<>>
    /\ spc = "idle"

CatalogIdle ==
    /\ scraped_episodes = <<>>
    /\ scraped_specials = <<>>
    /\ json_episodes = <<>>
    /\ json_specials = <<>>
    /\ json_merged = <<>>
    /\ written = {}

DuplicateIdle ==
    /\ files = <<>>
    /\ parsed = <<>>
    /\ unparsed = <<>>
    /\ dup_code = <<>>
    /\ dup_date = <<>>
    /\ dup_abs = <<>>
    /\ xpc = "idle"

(***************************************************************************)
(* The normalizers applied to an input value: first normalize(s), then     *)
(* normalize of that result, then er_matching.normalize(s).  After the     *)
(* first call the same text may come back in another punctuation style     *)
(* (SwapVariant).                                                          *)
(***************************************************************************)
NormChars == {"a", "A", "-", "EN", "EM", "SHY", "'", "RSQ", " ", "NBSP", "ACUTE", "CAP_SZ"}
NormInputs ==
    {PyStr(x) : x \in SeqsUpTo(NormChars, MaxLen)} \cup {PyNone, PyInt(0), PyInt(5)}

\* the styles the same punctuation mark is written in
StyleClass(c) ==
    CASE c \in {"-", "EN", "EM"} -> {"-", "EN", "EM"}
      [] c \in {"'", "RSQ"} -> {"'", "RSQ"}
      [] c \in {" ", "NBSP"} -> {" ", "NBSP"}
      [] OTHER -> {c}

InitNormalize ==
    /\ s \in NormInputs
    /\ norm1 = NotRun
    /\ norm2 = NotRun
    /\ erNorm = NotRun
    /\ npc = "start"
    /\ KeyIdle /\ IndexIdle /\ MatchIdle /\ BuildIdle /\ DedupeIdle /\ CopyIdle /\ CatalogIdle /\ DuplicateIdle /\ ContainIdle /\ ScanIdle

Normalize ==
    /\ npc = "start"
    /\ norm1' = normalize(s)
    /\ npc' = "normalized"
    /\ UNCHANGED <<s, norm2, erNorm, othersNorm>>

NormalizeAgain ==
    /\ npc = "normalized"
    /\ IsStr(norm1)
    /\ norm2' = normalize(norm1)
    /\ npc' = "renormalized"
    /\ UNCHANGED <<s, norm1, erNorm, othersNorm>>

NormalizeER ==
    /\ npc = "renormalized" \/ (npc = "normalized" /\ ~IsStr(norm1))
    /\ erNorm' = er_normalize(s)
    /\ npc' = "done"
    /\ UNCHANGED <<s, norm1, norm2, othersNorm>>

SwapVariant ==
    /\ npc \notin {"idle", "start"}
    /\ IsStr(s)
    /\ \E i \in 1..Len(s.str) : \E c \in StyleClass(s.str[i]) \ {s.str[i]} :
          s' = PyStr([s.str EXCEPT ![i] = c])
    /\ UNCHANGED <<norm1, norm2, erNorm, npc, othersNorm>>

NextNormalize == Normalize \/ NormalizeAgain \/ NormalizeER \/ SwapVariant

SpecNormalize == InitNormalize /\ [][NextNormalize]_vars

(***************************************************************************)
(* The key extractor applied to one filename and one CSV row.  After the   *)
(* key of a matching filename is taken, the same episode may be found      *)
(* under the name with the XL qualifier added or removed.                  *)
(***************************************************************************)
InitKey ==
    /\ file \in Filenames
    /\ fkey = NotRun
    /\ row = NoRow
    /\ rkey = NotRun
    /\ NormIdle /\ IndexIdle /\ MatchIdle /\ BuildIdle /\ DedupeIdle /\ CopyIdle /\ CatalogIdle /\ DuplicateIdle /\ ContainIdle /\ ScanIdle

KeyFromFilename ==
    /\ file # NoFile
    /\ fkey = NotRun
    /\ fkey' = key_from_filename(Join(file))
    /\ UNCHANGED <<file, row, rkey, othersKey>>

KeyFromRow ==
    /\ fkey # NotRun
    /\ rkey = NotRun
    /\ \E r \in Rows :
          /\ row' = r
          /\ rkey' = key_from_row(r)
    /\ UNCHANGED <<file, fkey, othersKey>>

\* the span PREFIX_RE's optional XL group matched in f (0 when it did not take part)
XlSpan(f, absEnd, x) == IF x # 0 /\ SepEnd(f, x) # 0 THEN x - absEnd ELSE 0
XlSpanOfMatch(f, m) == IF m = <<>> THEN 0 ELSE XlSpan(f, m[5], XlEnd(f, m[5]))
XlGroupLen(f) == XlSpanOfMatch(f, PREFIX_RE_match(f))

InsertXL ==
    /\ IsStr(fkey)
    /\ rkey = NotRun
    /\ file.xl = <<>>
    /\ XlGroupLen(Join(file)) = 0
    /\ \E x \in XlForms : file' = [file EXCEPT !.xl = x]
    /\ UNCHANGED <<fkey, row, rkey, othersKey>>

RemoveXL ==
    /\ IsStr(fkey)
    /\ rkey = NotRun
    /\ file.xl # <<>>
    /\ XlGroupLen(Join(file)) = Len(file.xl)
    /\ file' = [file EXCEPT !.xl = <<>>]
    /\ UNCHANGED <<fkey, row, rkey, othersKey>>

NextKey == KeyFromFilename \/ KeyFromRow \/ InsertXL \/ RemoveXL

SpecKey == InitKey /\ [][NextKey]_vars

(***************************************************************************)
(* check_videos_presence.main: build_key_index over the directory, then    *)
(* one VideoPresent mark per CSV row.                                      *)
(***************************************************************************)
\* directory.rglob("*") if recursive else directory.iterdir()
Listing(es, rec) == {e \in es : rec \/ e.depth = 0}

InitIndex ==
    /\ dir \in Trees
    /\ recursive \in BOOLEAN
    /\ pending = Listing(dir, recursive)
    /\ keys = {}
    /\ ipc = "scan"
    /\ marked = <<>>
    /\ NormIdle /\ KeyIdle /\ MatchIdle /\ BuildIdle /\ DedupeIdle /\ CopyIdle /\ CatalogIdle /\ DuplicateIdle /\ ContainIdle /\ ScanIdle

\* keys after the loop body for a regular file whose key is k
AddKey(ks, k) == IF Truthy(k) THEN ks \cup {k} ELSE ks

\* mutant: no is_file() test
ScanEntry_NoFileTest ==
    /\ ipc = "scan"
    /\ \E p \in pending :
          /\ pending' = pending \ {p}
          /\ keys' = AddKey(keys, key_from_filename(Join(p.name)))
    /\ UNCHANGED <<dir, recursive, ipc, marked, othersIndex>>

\* one iteration of build_key_index's loop
ScanEntry ==
    /\ ipc = "scan"
    /\ \E p \in pending :
          /\ pending' = pending \ {p}
          /\ keys' = IF p.kind # "file" THEN keys
                     ELSE AddKey(keys, key_from_filename(Join(p.name)))
    /\ UNCHANGED <<dir, recursive, ipc, marked, othersIndex>>

\* the iterator is exhausted: return keys
ReturnIndex ==
    /\ ipc = "scan"
    /\ pending = {}
    /\ ipc' = "mark"
    /\ UNCHANGED <<dir, recursive, pending, keys, marked, othersIndex>>

PresentMark(k) == IF Truthy(k) /\ k \in keys THEN "True" ELSE "False"

\* one iteration of main's loop over the rows of the CSV
MarkRow ==
    /\ ipc = "mark"
    /\ Len(marked) < MaxRows
    /\ \E r \in IndexRows :
          marked' = Append(marked, [row |-> r, VideoPresent |-> PresentMark(key_from_row(r))])
    /\ UNCHANGED <<dir, recursive, pending, keys, ipc, othersIndex>>

NextIndex == ScanEntry \/ ReturnIndex \/ MarkRow

SpecIndex == InitIndex /\ [][NextIndex]_vars

(***************************************************************************)
(* find_best_match(title, episodes), one loop iteration per step.  An      *)
(* episode is referred to by its position in the catalog; 0 is None.       *)
(***************************************************************************)
InitMatch ==
    /\ title \in Queries
    /\ episodes \in Catalogs
    /\ norm_title = <<>>
    /\ idx = 0
    /\ best_ep = 0
    /\ best_score = ScoreZero
    /\ mpc = "start"
    /\ result = NoResult
    /\ NormIdle /\ KeyIdle /\ IndexIdle /\ BuildIdle /\ DedupeIdle /\ CopyIdle /\ CatalogIdle /\ DuplicateIdle /\ ContainIdle /\ ScanIdle

\* norm_title = normalize(strip_series_prefix(title)); if not norm_title: return None, 0.0
StartMatch ==
    /\ mpc = "start"
    /\ norm_title' = er_normalize(strip_series_prefix(title)).str
    /\ IF norm_title' = <<>>
       THEN /\ mpc' = "ret_empty"
            /\ result' = [ep |-> 0, score |-> ScoreZero]
            /\ idx' = idx
       ELSE /\ mpc' = "loop"
            /\ result' = result
            /\ idx' = 1
    /\ UNCHANGED <<title, episodes, best_ep, best_score, buildVars, othersMatch>>

\* mutant: best_score is updated, best_ep is not
MatchStep_ScoreOnly ==
    /\ mpc = "loop"
    /\ idx <= Len(episodes)
    /\ LET cand == episodes[idx].norm_title_noprefix
       IN IF cand = <<>>
          THEN /\ idx' = idx + 1
               /\ UNCHANGED <<best_ep, best_score, mpc, result>>
          ELSE IF contains_whole_query(norm_title, cand)
          THEN /\ mpc' = "ret_contain"
               /\ result' = [ep |-> idx, score |-> ScoreOne]
               /\ UNCHANGED <<idx, best_ep, best_score>>
          ELSE /\ idx' = idx + 1
               /\ best_score' = IF ScoreGreater(ratio(norm_title, cand), best_score)
                                THEN ratio(norm_title, cand) ELSE best_score
               /\ UNCHANGED <<best_ep, mpc, result>>
    /\ UNCHANGED <<title, episodes, norm_title, buildVars, othersMatch>>

\* one iteration of the loop over episodes
MatchStep ==
    /\ mpc = "loop"
    /\ idx <= Len(episodes)
    /\ LET cand == episodes[idx].norm_title_noprefix
       IN IF cand = <<>>
          THEN /\ idx' = idx + 1
               /\ UNCHANGED <<best_ep, best_score, mpc, result>>
          ELSE IF contains_whole_query(norm_title, cand)
          THEN /\ mpc' = "ret_contain"
               /\ result' = [ep |-> idx, score |-> ScoreOne]
               /\ UNCHANGED <<idx, best_ep, best_score>>
          ELSE /\ idx' = idx + 1
               /\ best_score' = IF ScoreGreater(ratio(norm_title, cand), best_score)
                                THEN ratio(norm_title, cand) ELSE best_score
               /\ best_ep' = IF ScoreGreater(ratio(norm_title, cand), best_score)
                             THEN idx ELSE best_ep
               /\ UNCHANGED <<mpc, result>>
    /\ UNCHANGED <<title, episodes, norm_title, buildVars, othersMatch>>

\* mutant: a best score below 0.50 is returned as no match
ReturnBest_Threshold ==
    /\ mpc = "loop"
    /\ idx > Len(episodes)
    /\ mpc' = "ret_best"
    /\ result' = IF 2 * best_score[1] < best_score[2]
                 THEN [ep |-> 0, score |-> ScoreZero]
                 ELSE [ep |-> best_ep, score |-> best_score]
    /\ UNCHANGED <<title, episodes, norm_title, idx, best_ep, best_score, buildVars, othersMatch>>

\* return best_ep, best_score
ReturnBest ==
    /\ mpc = "loop"
    /\ idx > Len(episodes)
    /\ mpc' = "ret_best"
    /\ result' = [ep |-> best_ep, score |-> best_score]
    /\ UNCHANGED <<title, episodes, norm_title, idx, best_ep, best_score, buildVars, othersMatch>>

\* find_best_match has returned
Returned == mpc \in {"ret_empty", "ret_contain", "ret_best"}

NextMatch == StartMatch \/ MatchStep \/ ReturnBest

SpecMatch == InitMatch /\ [][NextMatch]_vars

(***************************************************************************)
(* build_new_filename(ep), and key_from_filename of the name it built.     *)
(***************************************************************************)
InitBuild ==
    /\ ep \in BuildEpisodes
    /\ new_name = NotRun
    /\ name_key = NotRun
    /\ bpc = "start"
    /\ NormIdle /\ KeyIdle /\ IndexIdle /\ MatchIdle /\ DedupeIdle /\ CopyIdle /\ CatalogIdle /\ DuplicateIdle /\ ContainIdle /\ ScanIdle

BuildNewFilename ==
    /\ bpc = "start"
    /\ new_name' = build_new_filename(ep)
    /\ bpc' = "built"
    /\ UNCHANGED <<ep, name_key, matchVars, othersBuild>>

KeyOfNewName ==
    /\ bpc = "built"
    /\ IsStr(new_name)
    /\ name_key' = key_from_filename(new_name.str)
    /\ bpc' = "keyed"
    /\ UNCHANGED <<ep, new_name, matchVars, othersBuild>>

NextBuild == BuildNewFilename \/ KeyOfNewName

SpecBuild == InitBuild /\ [][NextBuild]_vars

(***************************************************************************)
(* rename_er_episodes.main for one file: find_best_match over the loaded   *)
(* catalog, then build_new_filename of the match.                          *)
(***************************************************************************)
\* raw titles that name an entry of the catalog after the series name
TitlesNaming(eps) ==
    {PyStr(name \o <<":", " ">> \o eps[k].title.str) :
        name \in {SeriesName, SeriesNameSpaced}, k \in 1..Len(eps)}

InitRename ==
    /\ episodes \in Catalogs
    /\ title \in TitlesNaming(episodes) \cup TitleQueries
    /\ norm_title = <<>>
    /\ idx = 0
    /\ best_ep = 0
    /\ best_score = ScoreZero
    /\ mpc = "start"
    /\ result = NoResult
    /\ BuildIdle
    /\ NormIdle /\ KeyIdle /\ IndexIdle /\ DedupeIdle /\ CopyIdle /\ CatalogIdle /\ DuplicateIdle /\ ContainIdle /\ ScanIdle

\* if not best_ep / if score < 0.50: skip; else new_name = build_new_filename(best_ep)
RenameMatch ==
    /\ Returned
    /\ bpc = "idle"
    /\ IF result.ep = 0 \/ 2 * result.score[1] < result.score[2]
       THEN /\ bpc' = "skipped"
            /\ UNCHANGED <<ep, new_name>>
       ELSE /\ ep' = episodes[result.ep]
            /\ new_name' = build_new_filename(episodes[result.ep])
            /\ bpc' = "built"
    /\ UNCHANGED <<name_key, matchVars, othersBuild>>

NextRename == StartMatch \/ MatchStep \/ ReturnBest \/ RenameMatch

SpecRename == InitRename /\ [][NextRename]_vars

(***************************************************************************)
(* dedupe_final(df), and the same call on the rows of df in another order. *)
(***************************************************************************)
InitDedupe ==
    /\ df \in Frames
    /\ deduped = <<>>
    /\ prev_deduped = <<>>
    /\ dpc = "start"
    /\ NormIdle /\ KeyIdle /\ IndexIdle /\ MatchIdle /\ BuildIdle /\ CopyIdle /\ CatalogIdle /\ DuplicateIdle /\ ContainIdle /\ ScanIdle

DedupeFinal ==
    /\ dpc \in {"start", "reordered"}
    /\ deduped' = dedupe_final(df)
    /\ dpc' = IF dpc = "start" THEN "done" ELSE "done2"
    /\ UNCHANGED <<df, prev_deduped, othersDedupe>>

\* the same rows in another order: two neighbouring rows change places
Reorder ==
    /\ dpc \in {"done", "done2"}
    /\ \E i \in 1..(Len(df) - 1) :
          df' = [df EXCEPT ![i] = df[i + 1], ![i + 1] = df[i]]
    /\ prev_deduped' = deduped
    /\ dpc' = "reordered"
    /\ UNCHANGED <<deduped, othersDedupe>>

NextDedupe == DedupeFinal \/ Reorder

SpecDedupe == InitDedupe /\ [][NextDedupe]_vars

(***************************************************************************)
(* rename_er_episodes.main: the loop over the source files.  Each file is  *)
(* matched by find_best_match (StartMatch, MatchStep, ReturnBest) and then *)
(* copied or skipped.                                                      *)
(***************************************************************************)
InitCopy ==
    /\ episodes \in CopyCatalogs
    /\ mp4_files \in SourceListings
    /\ \E present \in SUBSET TargetNames(episodes) :
          destination = [n \in present |-> OLD_CONTENT]
    /\ fpos = 0
    /\ copied = 0
    /\ skipped = 0
    /\ cpc = "loop"
    /\ title = NotRun
    /\ norm_title = <<>>
    /\ idx = 0
    /\ best_ep = 0
    /\ best_score = ScoreZero
    /\ mpc = "idle"
    /\ result = NoResult
    /\ NormIdle /\ KeyIdle /\ IndexIdle /\ BuildIdle /\ DedupeIdle /\ CatalogIdle /\ DuplicateIdle /\ ContainIdle /\ ScanIdle

\* for src_path in mp4_files: raw_title = extract_raw_title_from_filename(src_path),
\* and the call of find_best_match(raw_title, episodes)
NextFile ==
    /\ cpc = "loop"
    /\ IF fpos < Len(mp4_files)
       THEN /\ fpos' = fpos + 1
            /\ title' = extract_raw_title_from_filename(mp4_files[fpos + 1])
            /\ norm_title' = <<>>
            /\ idx' = 0
            /\ best_ep' = 0
            /\ best_score' = ScoreZero
            /\ mpc' = "start"
            /\ result' = NoResult
            /\ cpc' = "matching"
       ELSE /\ cpc' = "done"
            /\ UNCHANGED <<fpos, title, norm_title, idx, best_ep, best_score, mpc, result>>
    /\ UNCHANGED <<episodes, mp4_files, destination, copied, skipped, buildVars, othersCopy>>

\* the file src is copied to the name dst of the destination folder
CopyTo(src, dst) ==
    /\ destination' = [n \in DOMAIN destination \cup {dst} |->
                          IF n = dst THEN src ELSE destination[n]]
    /\ copied' = copied + 1
    /\ skipped' = skipped

Skip ==
    /\ skipped' = skipped + 1
    /\ UNCHANGED <<destination, copied>>

\* mutant: the target is written whether it exists or not
CopyOrSkip_NoExistsTest ==
    /\ cpc = "matching"
    /\ Returned
    /\ IF result.ep = 0 THEN Skip
       ELSE IF 2 * result.score[1] < result.score[2] THEN Skip
       ELSE CopyTo(mp4_files[fpos], build_new_filename(episodes[result.ep]).str)
    /\ cpc' = "loop"
    /\ UNCHANGED <<mp4_files, fpos, matchVars, buildVars, othersCopy>>

\* mutant: a score of exactly 0.50 is skipped
CopyOrSkip_Above ==
    /\ cpc = "matching"
    /\ Returned
    /\ IF result.ep = 0 THEN Skip
       ELSE IF 2 * result.score[1] <= result.score[2] THEN Skip
       ELSE IF build_new_filename(episodes[result.ep]).str \in DOMAIN destination THEN Skip
       ELSE CopyTo(mp4_files[fpos], build_new_filename(episodes[result.ep]).str)
    /\ cpc' = "loop"
    /\ UNCHANGED <<mp4_files, fpos, matchVars, buildVars, othersCopy>>

\* the rest of the loop body: if not best_ep / if score < 0.50 /
\* if os.path.exists(dst_path): skip; else shutil.copy2(src_path, dst_path)
CopyOrSkip ==
    /\ cpc = "matching"
    /\ Returned
    /\ IF result.ep = 0 THEN Skip
       ELSE IF 2 * result.score[1] < result.score[2] THEN Skip
       ELSE IF build_new_filename(episodes[result.ep]).str \in DOMAIN destination THEN Skip
       ELSE CopyTo(mp4_files[fpos], build_new_filename(episodes[result.ep]).str)
    /\ cpc' = "loop"
    /\ UNCHANGED <<mp4_files, fpos, matchVars, buildVars, othersCopy>>

NextCopy == NextFile \/ StartMatch \/ MatchStep \/ ReturnBest \/ CopyOrSkip

SpecCopy == InitCopy /\ [][NextCopy]_vars

(***************************************************************************)
(* The catalog tools: each scraper numbers its list and writes it as a     *)
(* JSON list; merge_json_lists writes the two lists as one.                *)
(***************************************************************************)
InitCatalog ==
    /\ scraped_episodes \in EpisodeLists
    /\ scraped_specials \in SpecialLists
    /\ json_episodes = <<>>
    /\ json_specials = <<>>
    /\ json_merged = <<>>
    /\ written = {}
    /\ NormIdle /\ KeyIdle /\ IndexIdle /\ MatchIdle /\ BuildIdle /\ DedupeIdle /\ CopyIdle /\ DuplicateIdle /\ ContainIdle /\ ScanIdle

\* fetch-railway-romance-episodes.main: assign, write_json
FetchEpisodes ==
    /\ "episodes" \notin written
    /\ json_episodes' = assign_absolute_numbers_and_filenames(scraped_episodes)
    /\ written' = written \cup {"episodes"}
    /\ UNCHANGED <<scraped_episodes, scraped_specials, json_specials, json_merged, othersCatalog>>

\* fetch-railway-romance-specials.main: assign, write_json
FetchSpecials ==
    /\ "specials" \notin written
    /\ json_specials' = assign_absolute_numbers_and_filenames(scraped_specials)
    /\ written' = written \cup {"specials"}
    /\ UNCHANGED <<scraped_episodes, scraped_specials, json_episodes, json_merged, othersCatalog>>

\* merge_json_lists.main: merged = list1 + list2
MergeJsonLists ==
    /\ {"episodes", "specials"} \subseteq written
    /\ "merged" \notin written
    /\ json_merged' = json_episodes \o json_specials
    /\ written' = written \cup {"merged"}
    /\ UNCHANGED <<scraped_episodes, scraped_specials, json_episodes, json_specials, othersCatalog>>

NextCatalog == FetchEpisodes \/ FetchSpecials \/ MergeJsonLists

SpecCatalog == InitCatalog /\ [][NextCatalog]_vars

(***************************************************************************)
(* find_er_duplicates.main: scan, parse, report.                           *)
(***************************************************************************)
InitDuplicate ==
    /\ files \in Scans
    /\ parsed = <<>>
    /\ unparsed = <<>>
    /\ dup_code = <<>>
    /\ dup_date = <<>>
    /\ dup_abs = <<>>
    /\ xpc = "start"
    /\ NormIdle /\ KeyIdle /\ IndexIdle /\ MatchIdle /\ BuildIdle /\ DedupeIdle /\ CopyIdle /\ CatalogIdle /\ ContainIdle /\ ScanIdle

\* the rows of the files that parse, and the files that do not, in scan order
RECURSIVE ParsedRows(_)
ParsedRows(ps) ==
    IF ps = <<>> THEN <<>>
    ELSE ParsedRows(SubSeq(ps, 1, Len(ps) - 1)) \o parse_filename(ps[Len(ps)])

\* for p in files: row = parse_filename(p); main returns when there is no
\* file or no row
ParseFiles ==
    /\ xpc = "start"
    /\ parsed' = ParsedRows(files)
    /\ unparsed' = SelectSeq(files, LAMBDA p : parse_filename(p) = <<>>)
    /\ xpc' = IF parsed' = <<>> THEN "done" ELSE "parsed"
    /\ UNCHANGED <<files, dup_code, dup_date, dup_abs, othersDuplicate>>

\* print_duplicates(df, "episode_code"), (df, "broadcast_date"), (df, "abs_episode")
ReportDuplicates ==
    /\ xpc = "parsed"
    /\ dup_code' = print_duplicates(parsed, "episode_code")
    /\ dup_date' = print_duplicates(parsed, "broadcast_date")
    /\ dup_abs' = print_duplicates(parsed, "abs_episode")
    /\ xpc' = "done"
    /\ UNCHANGED <<files, parsed, unparsed, othersDuplicate>>

NextDuplicate == ParseFiles \/ ReportDuplicates

SpecDuplicate == InitDuplicate /\ [][NextDuplicate]_vars

(***************************************************************************)
(* download_er_filmliste.py: the record filter and the streaming scanner.  *)
(* The text is a sequence of symbols: the characters " X : [ ] , { } and   *)
(* the space stand for themselves, and a whole JSON string literal is one  *)
(* symbol ("ER", "OTHER").  Positions are 1-based: Python's index p is     *)
(* position p + 1, and 0 is "not found".                                   *)
(***************************************************************************)
\* the string a literal symbol decodes to
LiteralValue(c) ==
    IF c = "ER"
    THEN <<"E", "i", "s", "e", "n", "b", "a", "h", "n", "EN", "R", "o", "m", "a", "n", "t", "i", "k">>
    ELSE <<"R", "o", "m", "a", "n", "t", "i", "k">>
IsLiteral(c) == c \in {"ER", "OTHER"}

\* _norm(s): lower case, en and em dash as hyphen
_norm(x) == [i \in 1..Len(Lower(x)) |-> IF Lower(x)[i] \in {"EN", "EM"} THEN "-" ELSE Lower(x)[i]]

_is_er_record(record) ==
    \E n \in 1..Len(record) :
        /\ IsStr(record[n])
        /\ IsSubstring(<<"e", "i", "s", "e", "n", "b", "a", "h", "n">>, _norm(record[n].str))
        /\ IsSubstring(<<"r", "o", "m", "a", "n", "t", "i", "k">>, _norm(record[n].str))

token == <<"\"", "X", "\"">>
\* text_buf[max(0, len(text_buf) - 200_000):]
TAIL_KEEP == 200000
KeepTail(buf) ==
    IF Len(buf) > TAIL_KEEP THEN SubSeq(buf, Len(buf) - TAIL_KEEP + 1, Len(buf)) ELSE buf

\* str.find(pat, start) with start at position p
Find(buf, pat, p) ==
    IF \E j \in p..(Len(buf) - Len(pat) + 1) : SubSeq(buf, j, j + Len(pat) - 1) = pat
    THEN Least({j \in p..(Len(buf) - Len(pat) + 1) : SubSeq(buf, j, j + Len(pat) - 1) = pat})
    ELSE 0

\* dec.raw_decode(text_buf, pos) for an array of string literals: the record and
\* the position after it, or ok = FALSE for json.JSONDecodeError
NoRecord == [ok |-> FALSE, record |-> <<>>, end |-> 0]
RECURSIVE DecodeElements(_, _, _)
DecodeElements(buf, p, acc) ==
    IF ~IsLiteral(CharAt(buf, p)) THEN NoRecord
    ELSE IF CharAt(buf, WsEnd(buf, p + 1)) = ","
    THEN DecodeElements(buf, WsEnd(buf, WsEnd(buf, p + 1) + 1),
                        Append(acc, PyStr(LiteralValue(buf[p]))))
    ELSE IF CharAt(buf, WsEnd(buf, p + 1)) = "]"
    THEN [ok |-> TRUE, record |-> Append(acc, PyStr(LiteralValue(buf[p]))),
          end |-> WsEnd(buf, p + 1) + 1]
    ELSE NoRecord
raw_decode(buf, pos) ==
    IF CharAt(buf, WsEnd(buf, pos + 1)) = "]"
    THEN [ok |-> TRUE, record |-> <<>>, end |-> WsEnd(buf, pos + 1) + 1]
    ELSE DecodeElements(buf, WsEnd(buf, pos + 1), <<>>)

\* the locals j, colon and pos of one turn of the while loop
TokenAt == Find(text_buf, token, scan_i)
ColonAt == Find(text_buf, <<":">>, TokenAt + Len(token))
ValueAt == WsEnd(text_buf, ColonAt + 1)

(***************************************************************************)
(* Inputs of the scanner: film lists of "X" entries, and every way the     *)
(* download can deliver one in at most MaxChunks non-empty pieces.         *)
(***************************************************************************)
RECURSIVE JoinWith(_, _)
JoinWith(parts, sep) ==
    IF parts = <<>> THEN <<>>
    ELSE IF Len(parts) = 1 THEN parts[1]
    ELSE parts[1] \o sep \o JoinWith(Tail(parts), sep)

\* "X":[f1,f2] for an array entry, "X": f1 for an entry that is no array
XEntry(e) ==
    IF e.array
    THEN token \o <<":", "[">> \o JoinWith([n \in 1..Len(e.fields) |-> <<e.fields[n]>>], <<",">>)
         \o <<"]">>
    ELSE token \o <<":", " ">> \o <<e.fields[1]>>
FilmEntry(fields) == [array |-> TRUE, fields |-> fields]
NoArrayEntry == [array |-> FALSE, fields |-> <<"ER">>]
FilmLists ==
    {<<FilmEntry(<<"ER">>), FilmEntry(<<"OTHER">>), FilmEntry(<<"OTHER", "ER">>)>>,
     <<FilmEntry(<<"OTHER">>), FilmEntry(<<"ER", "OTHER">>)>>,
     <<NoArrayEntry, FilmEntry(<<"ER">>)>>,
     <<FilmEntry(<<"OTHER">>), NoArrayEntry>>,
     <<>>}
FilmlisteText(entries) ==
    <<"{">> \o JoinWith([n \in 1..Len(entries) |-> XEntry(entries[n])], <<",">>) \o <<"}">>

RECURSIVE Splits(_, _)
Splits(text, n) ==
    IF n <= 1 THEN {<<text>>}
    ELSE {<<text>>} \cup
         UNION {{<<SubSeq(text, 1, k)>> \o rest :
                    rest \in Splits(SubSeq(text, k + 1, Len(text)), n - 1)} :
                k \in 1..(Len(text) - 1)}

(***************************************************************************)
(* download_filmliste_extract_er with its default arguments (no            *)
(* max_matches), one turn of the while loop per step.                      *)
(***************************************************************************)
InitScan ==
    /\ stream \in {FilmlisteText(l) : l \in FilmLists}
    /\ chunks \in Splits(stream, MaxChunks)
    /\ text_buf = <<>>
    /\ scan_i = 0
    /\ matches = <<>>
    /\ spc = "read"
    /\ NormIdle /\ KeyIdle /\ IndexIdle /\ MatchIdle /\ BuildIdle /\ DedupeIdle /\ CopyIdle /\ CatalogIdle /\ DuplicateIdle /\ ContainIdle

\* for chunk in r.iter_content(...): text_buf += ...; i = 0
ReadChunk ==
    /\ spc = "read"
    /\ chunks # <<>>
    /\ text_buf' = text_buf \o Head(chunks)
    /\ chunks' = Tail(chunks)
    /\ scan_i' = 1
    /\ spc' = "scan"
    /\ UNCHANGED <<stream, matches, othersScan>>

\* j < 0: keep the tail of the buffer and wait for the next chunk
NoToken ==
    /\ spc = "scan"
    /\ TokenAt = 0
    /\ text_buf' = KeepTail(text_buf)
    /\ spc' = "read"
    /\ UNCHANGED <<stream, chunks, scan_i, matches, othersScan>>

\* colon < 0, or raw_decode raised: break with the buffer as it is
NeedMoreData ==
    /\ spc = "scan"
    /\ TokenAt # 0
    /\ \/ ColonAt = 0
       \/ /\ CharAt(text_buf, ValueAt) = "["
          /\ ~raw_decode(text_buf, ValueAt).ok
    /\ spc' = "read"
    /\ UNCHANGED <<stream, chunks, text_buf, scan_i, matches, othersScan>>

\* the value after "X": is no array: i = pos
NotArray ==
    /\ spc = "scan"
    /\ TokenAt # 0
    /\ ColonAt # 0
    /\ CharAt(text_buf, ValueAt) # "["
    /\ scan_i' = ValueAt
    /\ UNCHANGED <<stream, chunks, text_buf, matches, spc, othersScan>>

\* record, end = dec.raw_decode(text_buf, pos); matches.append(record); i = end
ExtractRecord ==
    /\ spc = "scan"
    /\ TokenAt # 0
    /\ ColonAt # 0
    /\ CharAt(text_buf, ValueAt) = "["
    /\ raw_decode(text_buf, ValueAt).ok
    /\ matches' = IF _is_er_record(raw_decode(text_buf, ValueAt).record)
                  THEN Append(matches, raw_decode(text_buf, ValueAt).record)
                  ELSE matches
    /\ scan_i' = raw_decode(text_buf, ValueAt).end
    /\ UNCHANGED <<stream, chunks, text_buf, spc, othersScan>>

\* the download is exhausted: return matches
ReturnMatches ==
    /\ spc = "read"
    /\ chunks = <<>>
    /\ spc' = "done"
    /\ UNCHANGED <<stream, chunks, text_buf, scan_i, matches, othersScan>>

NextScan ==
    \/ ReadChunk
    \/ NoToken
    \/ NeedMoreData
    \/ NotArray
    \/ ExtractRecord
    \/ ReturnMatches

SpecScan == InitScan /\ [][NextScan]_vars

(***************************************************************************)
(* contains_whole_query(query, candidate) on its own, for every pair of    *)
(* texts over two letters and the space.                                   *)
(***************************************************************************)
ContainTexts == SeqsUpTo({"a", "b", " "}, MaxLen)

InitContain ==
    /\ cw_query \in ContainTexts
    /\ cw_candidate \in ContainTexts
    /\ cw_result = NotRun
    /\ NormIdle /\ KeyIdle /\ IndexIdle /\ MatchIdle /\ BuildIdle /\ DedupeIdle /\ CopyIdle /\ CatalogIdle /\ DuplicateIdle /\ ScanIdle

ContainsWholeQuery ==
    /\ cw_result = NotRun
    /\ cw_result' = PyBool(contains_whole_query(cw_query, cw_candidate))
    /\ UNCHANGED <<cw_query, cw_candidate, othersContain>>

NextContain == ContainsWholeQuery

SpecContain == InitContain /\ [][NextContain]_vars

(***************************************************************************)
(* Properties of the normalizers.                                          *)
(***************************************************************************)
\* C1: the filename-key normalizer is idempotent: normalizing the result of
\* normalize again gives the same string.
C1_NormalizeIdempotent == norm2 # NotRun => norm2 = norm1

\* C2: strings that differ only in dash style (hyphen, en dash, em dash), in
\* apostrophe style (apostrophe, right single quotation mark) or in NBSP versus
\* space normalize to the same output: after any restyling, the text still
\* normalizes to what the original text normalized to.
C2_VariantInvariant == (IsStr(norm1) /\ IsStr(s)) => normalize(s) = norm1

C2_Witness ==
    /\ s = PyStr(<<"RSQ", "NBSP", "EM">>)
    /\ norm1 = PyStr(<<"'", " ", "-">>)
    /\ npc = "done"

\* C3: neither normalizer raises: for an input that is empty or not a string
\* (None, a number) both return the empty string.
C3_NeverRaises ==
    (~IsStr(s) \/ s.str = <<>>) =>
        /\ norm1 \in {NotRun, PyStr(<<>>)}
        /\ erNorm \in {NotRun, PyStr(<<>>)}

(***************************************************************************)
(* Properties of the key extractor.                                        *)
(***************************************************************************)
IsSeasonEpisode(x) ==
    \E n1 \in 1..4 : \E n2 \in 1..4 :
        /\ Len(x) = n1 + n2 + 2
        /\ x[1] \in {"S", "s"}
        /\ \A i \in 2..(n1 + 1) : x[i] \in Digits
        /\ x[n1 + 2] \in {"E", "e"}
        /\ \A i \in (n1 + 3)..Len(x) : x[i] \in Digits
IsSeparator(x) ==
    \E i \in 1..Len(x) : x[i] = "-" /\ \A j \in (1..Len(x)) \ {i} : x[j] = " "
IsDate(x) ==
    /\ Len(x) = 10
    /\ \A i \in 1..10 : IF i \in {5, 8} THEN x[i] = "-" ELSE x[i] \in Digits
IsAbsDigits(x) == x # <<>> /\ \A i \in 1..Len(x) : x[i] \in Digits

\* after the digits: the XL qualifier or nothing, then the final separator
HasFinalSeparator(rest) ==
    \E i \in 0..Len(rest) : \E j \in (i + 1)..Len(rest) :
        /\ SubSeq(rest, 1, i) \in XlForms \cup {<<>>}
        /\ IsSeparator(SubSeq(rest, i + 1, j))

\* the filename holds, in this order, a season/episode code, a date, the
\* absolute-episode digits (with or without the XL qualifier) and the final
\* separator, each joined by a separator
HasKeySequence(p) ==
    /\ IsSeasonEpisode(p.se)
    /\ IsSeparator(p.sep1)
    /\ IsDate(p.date)
    /\ IsSeparator(p.sep2)
    /\ IsAbsDigits(p.abs)
    /\ HasFinalSeparator(p.xl \o p.sep3 \o p.title)

\* a canonical filename: the key sequence at the start or after a series prefix,
\* the XL qualifier (if any) and the final separator each in their place
IsCanonicalFilename(p) ==
    /\ HasKeySequence(p)
    /\ p.prefix \in {<<>>, <<"T", " ">>}
    /\ p.xl \in XlForms \cup {<<>>}
    /\ IsSeparator(p.sep3)

\* C4: for a filename that matches the key pattern, adding or removing the XL
\* qualifier after the absolute-episode digits (" XL", "XL", "-XL", any letter
\* case) leaves the key unchanged.
C4_XLSameKey == IsStr(fkey) => key_from_filename(Join(file)) = fkey

C4_Witness ==
    /\ IsStr(fkey)
    /\ file.xl = <<"-", "x", "L">>
    /\ file.prefix = <<"T", " ">>
    /\ fkey = key_from_filename(Join([file EXCEPT !.xl = <<>>]))

\* the row and the filename carry the same code (up to letter case), date and
\* digits d, the row's AbsEpisode being d or d followed by " XL"
SameEpisode(p, r) ==
    /\ IsCanonicalFilename(p)
    /\ IsStr(r.SeasonEpisode) /\ IsStr(r.Date) /\ IsStr(r.AbsEpisode)
    /\ Lower(r.SeasonEpisode.str) = Lower(p.se)
    /\ r.Date.str = p.date
    /\ r.AbsEpisode.str \in {p.abs, p.abs \o XlSuffix}

\* C5: key_from_row of a row whose SeasonEpisode, Date and AbsEpisode (d or
\* d followed by " XL") are those of a canonical filename equals
\* key_from_filename of that filename, with or without XL, in any letter case.
C5_RowKeyEqualsFilenameKey == (rkey # NotRun /\ SameEpisode(file, row)) => rkey = fkey

C5_Witness ==
    /\ rkey # NotRun
    /\ SameEpisode(file, row)
    /\ row.AbsEpisode = PyStr(<<"7", "7">> \o XlSuffix)
    /\ row.SeasonEpisode = PyStr(<<"S", "1", "E", "2">>)
    /\ file.se = <<"s", "1", "e", "2">>
    /\ file.xl = <<>>

\* C6: key_from_filename returns None, and raises nothing, for every filename
\* that does not hold the whole sequence code, date, digits, final separator;
\* a key is returned only when the sequence is there.
C6_NoKeyWithoutKeySequence ==
    fkey # NotRun =>
        /\ fkey.type \in {"str", "NoneType"}
        /\ ~HasKeySequence(file) => fkey = PyNone

C6_Witness ==
    /\ fkey = PyNone
    /\ HasKeySequence([file EXCEPT !.sep3 = <<"-">>])
    /\ ~HasKeySequence(file)
    /\ file.sep3 = <<>>
    /\ file.prefix = <<>>

(***************************************************************************)
(* Properties of the directory index.                                      *)
(***************************************************************************)
\* the keys of the regular files the scan lists
ExpectedKeys ==
    {key_from_filename(Join(e.name)) : e \in {x \in Listing(dir, recursive) : x.kind = "file"}}
    \ {PyNone}

\* C7: build_key_index returns exactly the keys key_from_filename gives for
\* the regular files of the directory (of the tree when recursive);
\* directories and files without a key add nothing; a row is marked
\* VideoPresent=True if and only if its key_from_row key is in that set.
C7_IndexIsKeysOfRegularFiles ==
    /\ keys \subseteq ExpectedKeys
    /\ ipc = "mark" =>
          /\ keys = ExpectedKeys
          /\ \A j \in 1..Len(marked) :
                (marked[j].VideoPresent = "True") <=> (key_from_row(marked[j].row) \in keys)

C7_Witness ==
    /\ ipc = "mark"
    /\ Len(marked) = 2
    /\ marked[1].VideoPresent = "True"
    /\ marked[2].VideoPresent = "False"
    /\ \E e \in dir :
          /\ e.kind = "dir"
          /\ e.depth = 0
          /\ key_from_filename(Join(e.name)) = key_from_row(marked[2].row)

(***************************************************************************)
(* Properties of the matcher.                                              *)
(***************************************************************************)
\* a query with no title text: None, empty, only whitespace or punctuation,
\* or the bare series name
HasNoTitleText(v) ==
    \/ ~Truthy(v)
    \/ \A i \in 1..Len(v.str) : ~IsAlnum(v.str[i])
    \/ v.str = SeriesName
    \/ v.str = <<" ">> \o SeriesNameSpaced \o <<" ", ":", " ">>

\* C8: find_best_match returns (None, 0.0) for every query that is empty,
\* whitespace-only or empty after prefix stripping and normalization, whatever
\* the catalog holds.
C8_BlankQueryNoMatch ==
    (mpc \notin {"idle", "start"} /\ HasNoTitleText(title)) =>
        result = [ep |-> 0, score |-> ScoreZero]

C8_Witness ==
    /\ mpc = "ret_empty"
    /\ title = PyStr(SeriesName)
    /\ Len(episodes) = MaxCatalog
    /\ \A i \in 1..Len(episodes) : episodes[i].norm_title_noprefix # <<>>

\* C9: the confidence find_best_match returns lies in [0.0, 1.0], and it is
\* exactly 0.0 whenever the matched episode is None.
C9_ConfidenceRange ==
    Returned =>
        /\ result.score[2] > 0
        /\ 0 <= result.score[1]
        /\ result.score[1] <= result.score[2]
        /\ result.ep = 0 => result.score[1] = 0

C9_Witness ==
    /\ mpc = "ret_best"
    /\ result.ep = 0
    /\ norm_title # <<>>
    /\ \E i \in 1..Len(episodes) : episodes[i].norm_title_noprefix # <<>>

\* C10: confidence 1.0 comes only from the containment rule: a result of the
\* similarity-ratio fallback has confidence strictly below 1.0.
C10_RatioBelowOne == mpc = "ret_best" => result.score[1] < result.score[2]

C10_Witness ==
    /\ mpc = "ret_best"
    /\ result.ep # 0
    /\ 2 * result.score[1] >= result.score[2]
    /\ result.score[1] < result.score[2]

\* the query as find_best_match compares it, and the candidate text of entry i
QueryText == er_normalize(strip_series_prefix(title)).str
Candidate(i) == episodes[i].norm_title_noprefix

\* the words of a normalized text
RECURSIVE Tokens(_)
Tokens(x) ==
    IF x = <<>> THEN <<>>
    ELSE IF \E i \in 1..Len(x) : x[i] = " "
    THEN LET i == CHOOSE k \in 1..Len(x) : x[k] = " " /\ \A j \in 1..(k - 1) : x[j] # " "
         IN <<SubSeq(x, 1, i - 1)>> \o Tokens(SubSeq(x, i + 1, Len(x)))
    ELSE <<x>>

\* the words of q are consecutive words of c
IsTokenRun(q, c) ==
    /\ q # <<>> /\ c # <<>>
    /\ \E i \in 0..(Len(Tokens(c)) - Len(Tokens(q))) :
          SubSeq(Tokens(c), i + 1, i + Len(Tokens(q))) = Tokens(q)

Containing == {i \in 1..Len(episodes) : IsTokenRun(QueryText, Candidate(i))}
First(is) == CHOOSE i \in is : \A j \in is : i <= j

\* C11: if some catalog entry contains the query as a whole-token run, the
\* first such entry in catalog order is returned with confidence 1.0, whatever
\* the similarity scores of the other entries; the similarity fallback decides
\* only when no entry contains the query.
C11_FirstContainmentWins ==
    Returned =>
        IF Containing # {}
        THEN mpc = "ret_contain" /\ result = [ep |-> First(Containing), score |-> ScoreOne]
        ELSE mpc # "ret_contain"

C11_Witness ==
    /\ mpc = "ret_contain"
    /\ result.ep = 2
    /\ best_ep = 1
    /\ best_score[1] > 0

ScoreEqual(x, y) == x[1] * y[2] = y[1] * x[2]
\* the fraction x is above the fraction y
RatioAbove(x, y) == x[1] * y[2] > y[1] * x[2]
\* entry i has the greatest similarity ratio of the catalog
HasGreatestRatio(i) ==
    \A j \in 1..Len(episodes) :
        ~RatioAbove(ratio(QueryText, Candidate(j)), ratio(QueryText, Candidate(i)))
FirstBest == First({i \in 1..Len(episodes) : HasGreatestRatio(i)})
FallbackCase == Returned /\ QueryText # <<>> /\ Containing = {} /\ Len(episodes) > 0

\* C12 as stated: when no catalog entry contains the query, the entry with the
\* greatest similarity ratio is returned, the first of them in catalog order.
C12_GreatestRatioReturned == FallbackCase => result.ep = FirstBest

\* C12 as amended: when no catalog entry contains the query and the greatest
\* similarity ratio is above 0.0, the first entry with that ratio is returned
\* together with it; when every ratio is 0.0, (None, 0.0) is returned.
C12_GreatestPositiveRatioReturned ==
    FallbackCase =>
        IF ratio(QueryText, Candidate(FirstBest))[1] > 0
        THEN /\ result.ep = FirstBest
             /\ ScoreEqual(result.score, ratio(QueryText, Candidate(FirstBest)))
        ELSE result = [ep |-> 0, score |-> ScoreZero]

C12_Witness ==
    /\ mpc = "ret_best"
    /\ Len(episodes) = 2
    /\ result.ep = 1
    /\ Candidate(1) # Candidate(2)
    /\ ScoreEqual(ratio(QueryText, Candidate(1)), ratio(QueryText, Candidate(2)))

\* C13 as stated: for a non-empty query and a catalog with at least one entry
\* whose normalized title is non-empty, an episode is returned.
C13_EpisodeReturned ==
    (Returned /\ QueryText # <<>> /\ \E i \in 1..Len(episodes) : episodes[i].norm_title # <<>>)
        => result.ep # 0

\* C13 as amended: no episode is returned exactly when the query is empty
\* after normalization or every catalog entry has an empty normalized,
\* prefix-stripped title or shares no character with the query (ratio 0.0).
C13_NoEpisodeExactlyWhen ==
    Returned =>
        (result.ep = 0 <=>
            \/ QueryText = <<>>
            \/ \A i \in 1..Len(episodes) :
                  \/ Candidate(i) = <<>>
                  \/ \A k \in 1..Len(QueryText) : \A l \in 1..Len(Candidate(i)) :
                        QueryText[k] # Candidate(i)[l])

C13_Witness ==
    /\ mpc = "ret_best"
    /\ result.ep = 0
    /\ QueryText # <<>>
    /\ Len(episodes) = 2
    /\ episodes[1].norm_title # <<>> /\ Candidate(1) = <<>>
    /\ Candidate(2) # <<>>

(***************************************************************************)
(* Properties of the filename builder.                                     *)
(***************************************************************************)
\* a field as the name shows it: its placeholder when absent, None or empty
Rendered(v, placeholder) == IF v = PyNone \/ v = PyStr(<<>>) THEN placeholder ELSE Format(v)

\* 'Eisenbahn-Romantik <code> - <date> - <abs> - ' for the episode e
NameHead(e) ==
    SERIES_FILE_PREFIX \o Rendered(e.season_episode_code, S00E00) \o <<" ", "-", " ">>
    \o Rendered(e.air_date_iso, NO_DATE) \o <<" ", "-", " ">>
    \o Rendered(e.abs_episode, <<"0">>) \o <<" ", "-", " ">>

HasNameShape(n, e) ==
    /\ Len(n) >= Len(NameHead(e)) + 4
    /\ SubSeq(n, 1, Len(NameHead(e))) = NameHead(e)
    /\ SubSeq(n, Len(n) - 3, Len(n)) = <<".", "m", "p", "4">>
TitleSegment(n, e) == SubSeq(n, Len(NameHead(e)) + 1, Len(n) - 4)

\* the title with / and \ replaced by a hyphen and : * ? " < > | deleted
CleanChar(c) ==
    IF c \in {"/", "\\"} THEN <<"-">>
    ELSE IF c \in {":", "*", "?", "\"", "<", ">", "|"} THEN <<>>
    ELSE <<c>>
Cleaned(x) == Flatten([i \in 1..Len(x) |-> CleanChar(x[i])])
\* x without its leading and trailing whitespace
Trimmed(x) ==
    LET ns == {i \in 1..Len(x) : x[i] \notin {" ", "NBSP"}}
    IN IF ns = {} THEN <<>>
       ELSE SubSeq(x, CHOOSE i \in ns : \A j \in ns : i <= j,
                      CHOOSE i \in ns : \A j \in ns : i >= j)
SanitizedTitle(v) == Trimmed(Cleaned(Rendered(v, UNKNOWN_TITLE)))

\* C15: build_new_filename always returns 'Eisenbahn-Romantik <code> - <date>
\* - <abs> - <title>.mp4'; an absent, None or empty field is rendered as its
\* placeholder, and none of the four segments is ever empty.
C15_SegmentsNeverEmpty ==
    bpc # "start" =>
        /\ IsStr(new_name)
        /\ HasNameShape(new_name.str, ep)
        /\ Rendered(ep.season_episode_code, S00E00) # <<>>
        /\ Rendered(ep.air_date_iso, NO_DATE) # <<>>
        /\ Rendered(ep.abs_episode, <<"0">>) # <<>>
        /\ TitleSegment(new_name.str, ep) # <<>>
        /\ (ep.title \in {PyNone, PyStr(<<>>)} =>
               TitleSegment(new_name.str, ep) = UNKNOWN_TITLE)

\* C16: the title segment of the built name holds none of / \ : * ? " < > |,
\* has no leading or trailing whitespace, and is the title with each / and \
\* replaced by one hyphen and each of : * ? " < > | deleted, then trimmed.
C16_TitleSegmentSanitized ==
    bpc # "start" =>
        /\ IsStr(new_name)
        /\ HasNameShape(new_name.str, ep)
        /\ LET seg == TitleSegment(new_name.str, ep)
           IN /\ \A i \in 1..Len(seg) :
                    seg[i] \notin {"/", "\\", ":", "*", "?", "\"", "<", ">", "|"}
              /\ seg # <<>> => (seg[1] \notin {" ", "NBSP"} /\ seg[Len(seg)] \notin {" ", "NBSP"})
              /\ seg = SanitizedTitle(ep.title)

C16_Witness ==
    /\ bpc = "built"
    /\ ep.title = PyStr(<<" ", "a", "/", "b", "\\", "B", "NBSP">>)
    /\ TitleSegment(new_name.str, ep) = <<"a", "-", "b", "-", "B">>

IsCode(x) ==
    \E i \in 2..5 :
        /\ Len(x) - i - 1 \in 1..4
        /\ x[1] = "S" /\ x[i + 1] = "E"
        /\ \A j \in (2..i) \cup ((i + 2)..Len(x)) : x[j] \in Digits
IsIsoDate(x) ==
    /\ Len(x) = 10
    /\ \A j \in 1..10 : IF j \in {5, 8} THEN x[j] = "-" ELSE x[j] \in Digits
\* the CSV row that carries the code, date and absolute number of e
RowOf(e) ==
    [SeasonEpisode |-> e.season_episode_code, Date |-> e.air_date_iso,
     AbsEpisode |-> PyStr(str_int(e.abs_episode.num))]
IsPopulated(e) ==
    /\ IsStr(e.season_episode_code) /\ IsCode(e.season_episode_code.str)
    /\ IsStr(e.air_date_iso) /\ IsIsoDate(e.air_date_iso.str)
    /\ e.abs_episode.type = "int" /\ e.abs_episode.num > 0

\* C17: for an episode with a code S<1-4 digits>E<1-4 digits>, a yyyy-mm-dd
\* date, a positive absolute number and any title, the key key_from_filename
\* extracts from the built name is not None and equals key_from_row of the
\* row with the same code, date and absolute number.
C17_BuiltNameRoundTrip ==
    (bpc = "keyed" /\ IsPopulated(ep)) =>
        /\ name_key # PyNone
        /\ name_key = key_from_row(RowOf(ep))

C17_Witness ==
    /\ bpc = "keyed"
    /\ ep.season_episode_code = PyStr(<<"S", "2", "0", "2", "4", "E", "1", "0">>)
    /\ ep.abs_episode = PyInt(1071)
    /\ ep.title = PyStr(<<"X", "L", " ", "-", " ", "a">>)
    /\ name_key = PyStr(<<"s", "2", "0", "2", "4", "e", "1", "0", " ", "-", " ",
                          "2", "0", "0", "6", "-", "0", "7", "-", "1", "0", " ", "-", " ",
                          "1", "0", "7", "1", " ", "-">>)

(***************************************************************************)
(* The matcher and the filename builder together.                          *)
(***************************************************************************)
\* the raw title is the series name, a colon and the title of entry k
Names(k) ==
    \E name \in {SeriesName, SeriesNameSpaced} :
        title = PyStr(name \o <<":", " ">> \o episodes[k].title.str)
\* no entry before k contains the title of entry k
NoEarlierContains(k) ==
    \A j \in 1..(k - 1) : ~IsTokenRun(ErNormalizeStr(episodes[k].title.str), Candidate(j))
\* 'Eisenbahn-Romantik <code> - <date> - <abs> - <title>.mp4' of entry k
NameOfEntry(k) ==
    PyStr(NameHead(episodes[k]) \o SanitizedTitle(episodes[k].title) \o <<".", "m", "p", "4">>)

\* the letters and digits of x, in lower case
LettersOf(x) == Lower(Flatten([i \in 1..Len(x) |-> IF IsAlnum(x[i]) THEN <<x[i]>> ELSE <<>>]))
BeginsWithSeriesName(x) ==
    \E n \in 1..Len(x) :
        LettersOf(SubSeq(x, 1, n)) =
            <<"e", "i", "s", "e", "n", "b", "a", "h", "n", "r", "o", "m", "a", "n", "t", "i", "k">>

\* C14 as stated: the series name, a colon and the title of a catalog entry
\* as query returns that entry with confidence 1.0 when no earlier entry
\* contains the title, and the name built from the result is
\* 'Eisenbahn-Romantik <code> - <date> - <abs> - <title>.mp4'.
C14_SeriesNameAndTitleMatches ==
    \A k \in 1..Len(episodes) :
        (bpc # "idle" /\ Names(k) /\ NoEarlierContains(k)) =>
            /\ result = [ep |-> k, score |-> ScoreOne]
            /\ new_name = NameOfEntry(k)

\* C14 as amended: the same, for the title of a catalog entry that holds at
\* least one letter or digit and does not itself begin with the series name.
C14_SeriesNameAndPlainTitleMatches ==
    \A k \in 1..Len(episodes) :
        (/\ bpc # "idle" /\ Names(k) /\ NoEarlierContains(k)
         /\ LettersOf(episodes[k].title.str) # <<>>
         /\ ~BeginsWithSeriesName(episodes[k].title.str)) =>
            /\ result = [ep |-> k, score |-> ScoreOne]
            /\ new_name = NameOfEntry(k)

C14_Witness ==
    /\ bpc = "built"
    /\ Len(episodes) = 2
    /\ Names(2)
    /\ result = [ep |-> 2, score |-> ScoreOne]
    /\ episodes[1].title # episodes[2].title
    /\ Candidate(1) # <<>>
    /\ new_name = PyStr(SERIES_FILE_PREFIX \o <<"S", "0", "1", "E", "0", "1">> \o SepLit
                        \o <<"2", "0", "0", "6", "-", "0", "7", "-", "1", "0">> \o SepLit
                        \o <<"1">> \o SepLit \o <<"a", "b">> \o MP4)

(***************************************************************************)
(* Properties of the deduplication.                                        *)
(***************************************************************************)
Deduped == dpc \in {"done", "done2"}
RowsOf(frame) == {frame[i] : i \in 1..Len(frame)}
\* the (episode number, normalized title) pair of a row
PairOf(r) == <<r.episode, normalize_title(r.title)>>
\* the rows of the input in the group of r
GroupOf(r) == {x \in RowsOf(df) : PairOf(x) = PairOf(r)}

\* C18: dedupe_final keeps exactly one row for every distinct (episode
\* number, normalized title) pair of its input: as many rows as there are
\* pairs, each an unmodified input row, no two with the same pair.
C18_OneRowPerPair ==
    Deduped =>
        /\ Len(deduped) = Cardinality({PairOf(r) : r \in RowsOf(df)})
        /\ RowsOf(deduped) \subseteq RowsOf(df)
        /\ \A j \in 1..Len(deduped) : \A k \in 1..Len(deduped) :
              PairOf(deduped[j]) = PairOf(deduped[k]) => j = k

C18_Witness ==
    /\ dpc = "done"
    /\ Len(df) = MaxFrame
    /\ Len(deduped) = 2
    /\ \E x \in RowsOf(df) : \E y \in RowsOf(df) :
          x.title # y.title /\ PairOf(x) = PairOf(y)

\* x ranks above r: a later parsed date (any date is later than none), or the
\* same date and more seconds, or the same date and seconds and a greater
\* start-time string
RanksAbove(x, r, startOfX, startOfR) ==
    \/ DateLater(to_datetime(x.date), to_datetime(r.date))
    \/ /\ to_datetime(x.date) = to_datetime(r.date)
       /\ parse_duration_to_seconds(x.duration) > parse_duration_to_seconds(r.duration)
    \/ /\ to_datetime(x.date) = to_datetime(r.date)
       /\ parse_duration_to_seconds(x.duration) = parse_duration_to_seconds(r.duration)
       /\ StrLess(startOfR, startOfX)

C20_SameRowsForEveryOrder == dpc = "done2" => RowsOf(deduped) = RowsOf(prev_deduped)

\* the values dedupe_final ranks a row by
RankOf(r) ==
    <<r.episode, normalize_title(r.title), to_datetime(r.date),
      parse_duration_to_seconds(r.duration), Trimmed(r.start_time.str)>>

\* C20 as amended: for every two orderings of the input the rows kept have
\* the same episode number, normalized title, parsed date, duration in
\* seconds and trimmed start time; they are the same rows whenever no two
\* different rows of the input agree on all five.
C20_SameRanksForEveryOrder ==
    dpc = "done2" =>
        /\ {RankOf(r) : r \in RowsOf(deduped)} = {RankOf(r) : r \in RowsOf(prev_deduped)}
        /\ (\A x \in RowsOf(df) : \A y \in RowsOf(df) : RankOf(x) = RankOf(y) => x = y)
              => RowsOf(deduped) = RowsOf(prev_deduped)

C20_Witness ==
    /\ dpc = "done2"
    /\ Len(df) = MaxFrame
    /\ Len(deduped) = 1
    /\ RowsOf(deduped) # RowsOf(prev_deduped)
    /\ deduped[1] = df[1]
    /\ RankOf(df[1]) # RankOf(df[MaxFrame])

\* the rows left by drop_duplicates, before the final sort
Survivors == DropHelperColumns(drop_duplicates(sort_values(AddHelperColumns(df), "rank")))

\* C21: the final sort of dedupe_final changes only the order of the rows: the
\* rows returned are the rows left by the deduplication step, and they are
\* ordered by parsed broadcast date, latest first (rows without a parsable
\* date last).
C21_FinalSortOnlyReorders ==
    Deduped =>
        /\ Len(deduped) = Len(Survivors)
        /\ RowsOf(deduped) = RowsOf(Survivors)
        /\ \A j \in 1..Len(deduped) : \A k \in 1..Len(deduped) :
              j < k => ~DateLater(to_datetime(deduped[k].date), to_datetime(deduped[j].date))

C21_Witness ==
    /\ dpc = "done"
    /\ Len(deduped) = 2
    /\ deduped # Survivors
    /\ to_datetime(deduped[2].date) # <<>>
    /\ DateLater(to_datetime(deduped[1].date), to_datetime(deduped[2].date))

(***************************************************************************)
(* Properties of the rename run.                                           *)
(***************************************************************************)
\* C22: rename_er_episodes never overwrites a file: a name of the destination
\* folder, there before the run or written earlier in it, stays there with
\* the content it has.
C22_NeverOverwrites ==
    [][\A n \in DOMAIN destination :
          n \in DOMAIN destination' /\ destination'[n] = destination[n]]_vars

\* the name the matched episode gives the copy
TargetName == build_new_filename(episodes[result.ep]).str
HalfOrMore(score) == 2 * score[1] >= score[2]

C22_Witness ==
    /\ cpc = "done"
    /\ Len(mp4_files) = 2
    /\ copied = 1
    /\ skipped = 1
    /\ result.ep # 0
    /\ HalfOrMore(result.score)
    /\ destination[TargetName] = mp4_files[1]

\* find_best_match returned an episode with a score of at least 0.50 and no
\* file of the destination folder has the episode's name
Accepted ==
    IF result.ep = 0 THEN FALSE
    ELSE HalfOrMore(result.score) /\ TargetName \notin DOMAIN destination

\* C23: a source file is copied exactly when find_best_match returns an
\* episode with a score of at least 0.50 (0.50 itself included) and the
\* target does not exist; every other file is skipped, and at the end
\* copied + skipped is the number of source files.
C23_CopiedExactlyWhenAccepted ==
    /\ [][IF cpc = "matching" /\ cpc' = "loop"
          THEN IF Accepted
               THEN /\ copied' = copied + 1
                    /\ skipped' = skipped
                    /\ destination'[TargetName] = mp4_files[fpos]
               ELSE /\ skipped' = skipped + 1
                    /\ copied' = copied
                    /\ destination' = destination
          ELSE copied' = copied /\ skipped' = skipped /\ destination' = destination]_vars
    /\ [](cpc = "done" => copied + skipped = Len(mp4_files))

C23_Witness ==
    /\ cpc = "loop"
    /\ fpos = 1
    /\ copied = 1
    /\ result.ep # 0
    /\ 2 * result.score[1] = result.score[2]

(***************************************************************************)
(* Properties of the catalogs.                                             *)
(***************************************************************************)
\* abs_episode is a positive integer, strictly increasing in listing order
AbsIncreasing(catalog) ==
    /\ \A i \in 1..Len(catalog) :
          catalog[i].abs_episode.type = "int" /\ catalog[i].abs_episode.num > 0
    /\ \A i \in 1..Len(catalog) : \A j \in 1..Len(catalog) :
          i < j => catalog[i].abs_episode.num < catalog[j].abs_episode.num

\* C24: in every catalog the tools produce - each scraped list after
\* assign_absolute_numbers_and_filenames and the list merge_json_lists makes
\* of the two - abs_episode is a positive integer, strictly increasing in
\* listing order and unique.
C24_AbsEpisodeIncreasing ==
    /\ "episodes" \in written => AbsIncreasing(json_episodes)
    /\ "specials" \in written => AbsIncreasing(json_specials)
    /\ "merged" \in written => AbsIncreasing(json_merged)

(***************************************************************************)
(* Properties of the duplicate finder.                                     *)
(***************************************************************************)
\* the paths a report lists
Listed(report) == {report[i].path : i \in 1..Len(report)}
\* another parsed file has the same episode code, broadcast date and
\* absolute episode number
HasTwin(r) ==
    \E o \in RowsOf(parsed) :
        /\ o.path # r.path
        /\ o.episode_code = r.episode_code
        /\ o.broadcast_date = r.broadcast_date
        /\ o.abs_episode = r.abs_episode

\* C25: find_er_duplicates reports a file as a duplicate exactly when another
\* scanned file has the same episode code, the same broadcast date and the
\* same absolute episode number.
C25_DuplicateWhenAllThreeAgree ==
    (xpc = "done" /\ parsed # <<>>) =>
        \A r \in RowsOf(parsed) :
            r.path \in Listed(dup_code) \cup Listed(dup_date) \cup Listed(dup_abs) <=> HasTwin(r)

(***************************************************************************)
(* Further properties of the filename-key normalizer and of the row key.   *)
(***************************************************************************)
\* x with every character of the dash table written as an ASCII hyphen
WithAsciiHyphens(x) == [i \in 1..Len(x) |-> IF x[i] \in DASH_EQUIVALENTS THEN "-" ELSE x[i]]

\* C26: every character of the dash-variant set, the soft hyphen included, is
\* normalized to one ASCII hyphen: normalize of a string equals normalize of
\* the same string with each dash variant replaced by "-".
C26_DashVariantsBecomeHyphen ==
    (IsStr(s) /\ norm1 # NotRun) => norm1 = normalize(PyStr(WithAsciiHyphens(s.str)))

\* the text of a cell, a missing cell reading as the empty string
CellText(c) == IF IsStr(c) THEN c.str ELSE <<>>
\* the digits v starts with
LeadingRunOfDigits(v) ==
    IF v = <<>> \/ ~IsDigit(v[1]) THEN <<>>
    ELSE CHOOSE d \in {SubSeq(v, 1, q) : q \in 1..Len(v)} :
            /\ \A i \in 1..Len(d) : IsDigit(d[i])
            /\ (Len(d) = Len(v) \/ ~IsDigit(v[Len(d) + 1]))
\* the first maximal run of digits in v, wherever it starts
FirstRunOfDigits(v) ==
    IF \A i \in 1..Len(v) : ~IsDigit(v[i]) THEN <<>>
    ELSE LET pq == CHOOSE pq \in (1..Len(v)) \X (1..Len(v)) :
                      /\ pq[1] <= pq[2]
                      /\ \A i \in 1..(pq[1] - 1) : ~IsDigit(v[i])
                      /\ \A i \in pq[1]..pq[2] : IsDigit(v[i])
                      /\ (pq[2] = Len(v) \/ ~IsDigit(v[pq[2] + 1]))
         IN SubSeq(v, pq[1], pq[2])
\* the key text "{SeasonEpisode} - {Date} - {digits} - " of the current row
RowKeyWith(digits) ==
    normalize(PyStr(CellText(row.SeasonEpisode) \o <<" ", "-", " ">> \o CellText(row.Date)
                    \o <<" ", "-", " ">> \o digits \o <<" ", "-", " ">>))

\* C27 as stated: key_from_row puts into the key only the leading run of
\* decimal digits of AbsEpisode; a value that does not start with a digit
\* ("XL 1071") contributes an empty part, and so do missing fields.
C27_LeadingDigitRunInKey ==
    rkey # NotRun => rkey = RowKeyWith(LeadingRunOfDigits(CellText(row.AbsEpisode)))

\* C27: key_from_row puts into the key only the first run of decimal digits
\* of AbsEpisode: a value that starts with digits contributes exactly those
\* digits, a value that does not start with a digit contributes the first run
\* of digits found in it ("XL 1071" contributes "1071") and an empty part when
\* it holds no digit; missing fields contribute empty strings.
C27_FirstDigitRunInKey ==
    rkey # NotRun => rkey = RowKeyWith(FirstRunOfDigits(CellText(row.AbsEpisode)))

C27_Witness ==
    /\ row.SeasonEpisode = PyStr(<<" ", "s", "1", "e", "2">>)
    /\ row.AbsEpisode = PyStr(<<"X", "L", " ", "7", "7">>)
    /\ rkey = PyStr(<<"s", "1", "e", "2", " ", "-", " ", "2", "0", "2", "4", "-", "0", "3",
                      "-", "2", "2", " ", "-", " ", "7", "7", " ", "-">>)

(***************************************************************************)
(* Properties of the matching-oriented normalizer.                         *)
(***************************************************************************)
\* x holds only alphanumeric characters and single interior spaces
OnlyWordsAndSingleSpaces(x) ==
    /\ \A i \in 1..Len(x) : IsAlnum(x[i]) \/ x[i] = " "
    /\ x # <<>> => (x[1] # " " /\ x[Len(x)] # " ")
    /\ \A i \in 1..(Len(x) - 1) : ~(x[i] = " " /\ x[i + 1] = " ")

\* C29: er_matching.normalize returns, for every string, a string made only of
\* alphanumeric characters and single interior spaces, with no leading or
\* trailing space, no punctuation and no combining marks, and applying it
\* again leaves the result unchanged.
C29_ErNormalizeCanonical ==
    (IsStr(s) /\ erNorm # NotRun) =>
        /\ IsStr(erNorm)
        /\ OnlyWordsAndSingleSpaces(erNorm.str)
        /\ \A i \in 1..Len(erNorm.str) : erNorm.str[i] # "ACUTE"
        /\ er_normalize(erNorm) = erNorm

(***************************************************************************)
(* Properties of the containment rule.                                     *)
(***************************************************************************)
\* x.split(" "): the pieces of x between its spaces
RECURSIVE SplitOnSpace(_)
SplitOnSpace(x) ==
    IF \A i \in 1..Len(x) : x[i] # " " THEN <<x>>
    ELSE LET k == CHOOSE k \in 1..Len(x) : x[k] = " " /\ \A j \in 1..(k - 1) : x[j] # " "
         IN <<SubSeq(x, 1, k - 1)>> \o SplitOnSpace(SubSeq(x, k + 1, Len(x)))
\* the pieces qs are consecutive pieces of cs
OccursAsRun(qs, cs) ==
    \E i \in 0..(Len(cs) - Len(qs)) : SubSeq(cs, i + 1, i + Len(qs)) = qs

\* C28: the containment rule matches whole tokens only: contains_whole_query
\* is true exactly when the space-separated tokens of the query are a
\* contiguous run of the tokens of the candidate; a query that is only part of
\* a token does not match, and an empty query or candidate never matches.
C28_WholeTokensOnly ==
    cw_result # NotRun =>
        (cw_result = PyBool(TRUE) <=>
            /\ cw_query # <<>>
            /\ cw_candidate # <<>>
            /\ OccursAsRun(SplitOnSpace(cw_query), SplitOnSpace(cw_candidate)))

C28_Witness ==
    /\ cw_query = <<"b">>
    /\ cw_candidate = <<"a", "b">>
    /\ cw_result = PyBool(FALSE)

(***************************************************************************)
(* Properties of the film list scanner.                                    *)
(***************************************************************************)
\* the accepted records of the film list the stream was written from, in
\* stream order
RecordOf(e) == [n \in 1..Len(e.fields) |-> PyStr(LiteralValue(e.fields[n]))]
AcceptedRecords ==
    LET entries == CHOOSE l \in FilmLists : FilmlisteText(l) = stream
        arrays == SelectSeq(entries, LAMBDA e : e.array)
        records == [n \in 1..Len(arrays) |-> RecordOf(arrays[n])]
    IN SelectSeq(records, _is_er_record)

\* C30: the scanner is independent of chunking: for every way of splitting
\* the same text into chunks it returns the same list, in which each accepted
\* "X" record appears exactly once and in stream order; nothing is lost at a
\* chunk boundary and nothing already extracted is extracted again.
C30_ChunkingIndependent == spc = "done" => matches = AcceptedRecords

====
